---- MODULE Spec2Model ----
(***************************************************************************)
(* Model of the query endpoint of the portfolio application: the POST      *)
(* handler of app/api/query/route.ts together with the in-memory response  *)
(* cache, the per-client rate limiter and the daily call counter of        *)
(* lib/cache.ts, and the keyword fallback of lib/portfolio-data.ts.        *)
(*                                                                         *)
(* Strings are sequences of one-character strings, so that toLowerCase,    *)
(* trim, concatenation and includes are computed as the code computes      *)
(* them.  Date.now() is the variable now, in milliseconds.                 *)
(***************************************************************************)
EXTENDS Integers, Sequences, FiniteSets, TLC

VARIABLES
    now,            \* Date.now(), in ms
    rateLimitMap,   \* cache.ts rateLimitMap: client id -> entry, or None
    responseCache,  \* cache.ts responseCache: key -> entry (a function on the keys present)
    dailyCallCount, \* cache.ts dailyCallCount
    req,            \* the invocations of POST in flight, one per slot
    budget,         \* workload: how many more calls (of POST, of ragSearch) are made (-1: any number)
    windowLog,      \* history: per client, the window opened by its requests and what it allowed
    freshLog,       \* history: per (query, context), the last response produced by a generation
    storedBy,       \* history: per cache key present, the (query, context) whose request stored it
    cannedLog,      \* history: per cacheKey, the last pre-defined response stored after a failed generation
    chunkEmbeddings,\* search.ts chunkEmbeddings
    search,         \* the invocation of ragSearch in flight
    getting,        \* the invocations of getChunkEmbedding by searches in flight at once
    page,           \* the page component's state: isSearching, searchResult, showResult, quotaReached
    handle          \* the invocations of the page's handleSearch

vars == <<now, rateLimitMap, responseCache, dailyCallCount, req, budget, windowLog, freshLog,
          storedBy, cannedLog, chunkEmbeddings, search, getting, page, handle>>

\* the state of lib/rag/search.ts
ragVars == <<chunkEmbeddings, search, getting>>

\* the state of lib/cache.ts and of the POST handler
routeVars == <<now, rateLimitMap, responseCache, dailyCallCount, req, windowLog, freshLog, storedBy,
               cannedLog>>

\* the state of the page component
pageVars == <<page, handle>>

None == [none |-> TRUE]

----------------------------------------------------------------------------
(* Program constants, lib/cache.ts *)

CACHE_TTL == 6 * 60 * 60 * 1000
RATE_LIMIT == 10
RATE_WINDOW == 60 * 1000
DAILY_LIMIT == 12

(* Bounds of the model *)

\* number of whole rate windows the clock can step through
MaxWindows == 1
\* how far above DAILY_LIMIT the daily counter is followed
MaxOverQuota == 1

----------------------------------------------------------------------------
(* Strings *)

UpperCase == <<"A","B","C","D","E","F","G","H","I","J","K","L","M",
               "N","O","P","Q","R","S","T","U","V","W","X","Y","Z">>
LowerCase == <<"a","b","c","d","e","f","g","h","i","j","k","l","m",
               "n","o","p","q","r","s","t","u","v","w","x","y","z">>
WhiteSpace == {" ", "\t", "\n", "\r"}

ToLowerChar(c) ==
    IF \E i \in 1..26 : UpperCase[i] = c
    THEN LowerCase[CHOOSE i \in 1..26 : UpperCase[i] = c]
    ELSE c

\* String.prototype.toLowerCase
ToLowerCase(s) == [i \in 1..Len(s) |-> ToLowerChar(s[i])]

\* String.prototype.trim: drops the white space at both ends
Trim(s) ==
    LET keep == {i \in 1..Len(s) : s[i] \notin WhiteSpace}
    IN  IF keep = {} THEN <<>>
        ELSE LET lo == CHOOSE i \in keep : \A j \in keep : i <= j
                 hi == CHOOSE i \in keep : \A j \in keep : j <= i
             IN  SubSeq(s, lo, hi)

\* String.prototype.includes
Includes(s, kw) ==
    \E i \in 0..(Len(s) - Len(kw)) : SubSeq(s, i + 1, i + Len(kw)) = kw

----------------------------------------------------------------------------
(* JavaScript values of the request body *)

JsUndefined == [t |-> "undefined"]
JsNumber(n) == [t |-> "number", n |-> n]
JsString(s) == [t |-> "string", s |-> s]

IsString(v) == v.t = "string"

\* the value is truthy: not undefined, not 0, not ""
Truthy(v) ==
    CASE v.t = "undefined" -> FALSE
      [] v.t = "number"    -> v.n # 0
      [] v.t = "string"    -> v.s # <<>>

\* Map.get / Map.set / Map.delete on a function whose domain is the keys present
MapGet(m, k) == IF k \in DOMAIN m THEN m[k] ELSE None
MapSet(m, k, v) == [x \in DOMAIN m \cup {k} |-> IF x = k THEN v ELSE m[x]]
MapDelete(m, k) == [x \in DOMAIN m \ {k} |-> m[x]]

----------------------------------------------------------------------------
(* lib/cache.ts *)

isDailyQuotaExceeded(count) == count >= DAILY_LIMIT

\* (mutant) an entry expires a millisecond before its ttl
EntryExpiredEarly(entry, t) == t - entry.timestamp >= entry.ttl - 1

\* the stored entry is no longer valid at time t
EntryExpired(entry, t) == t - entry.timestamp > entry.ttl

\* the key the cache files a query under
NormalizeCacheQuery(query) == Trim(ToLowerCase(query))

\* getCachedResponse: the cache afterwards and the response, or "null"
getCachedResponse(cache, query, t) ==
    LET normalizedQuery == NormalizeCacheQuery(query)
        entry == MapGet(cache, normalizedQuery)
    IN  IF entry = None
        THEN [cache |-> cache, response |-> "null"]
        ELSE IF EntryExpired(entry, t)
        THEN [cache |-> MapDelete(cache, normalizedQuery), response |-> "null"]
        ELSE [cache |-> cache, response |-> entry.response]

\* (mutant) the entry is filed under the key as given, not normalized
setCachedResponseRawKey(cache, query, response, t) ==
    MapSet(cache, query, [response |-> response, timestamp |-> t, ttl |-> CACHE_TTL])

\* setCachedResponse: the cache afterwards
setCachedResponse(cache, query, response, t) ==
    MapSet(cache, NormalizeCacheQuery(query),
           [response |-> response, timestamp |-> t, ttl |-> CACHE_TTL])

\* (mutant) the window is taken to be over already at resetTime
WindowOverAtReset(entry, t) == t >= entry.resetTime

\* the client's window is over at time t
WindowOver(entry, t) == t > entry.resetTime

\* (mutant) the limit is compared one too late
LimitReachedLate(entry) == entry.count > RATE_LIMIT

\* the client has used up its window
LimitReached(entry) == entry.count >= RATE_LIMIT

\* (mutant) a denied request is counted too
checkRateLimitCountingDenied(map, ip, t) ==
    LET entry == MapGet(map, ip)
    IN  IF entry = None \/ t > entry.resetTime
        THEN [map |-> MapSet(map, ip, [count |-> 1, resetTime |-> t + RATE_WINDOW]),
              result |-> [allowed |-> TRUE, remaining |-> RATE_LIMIT - 1,
                          resetIn |-> RATE_WINDOW]]
        ELSE IF entry.count >= RATE_LIMIT
        THEN [map |-> MapSet(map, ip, [entry EXCEPT !.count = @ + 1]),
              result |-> [allowed |-> FALSE, remaining |-> 0,
                          resetIn |-> entry.resetTime - t]]
        ELSE [map |-> MapSet(map, ip, [entry EXCEPT !.count = @ + 1]),
              result |-> [allowed |-> TRUE, remaining |-> RATE_LIMIT - (entry.count + 1),
                          resetIn |-> entry.resetTime - t]]

\* checkRateLimit: the map afterwards and the result returned
checkRateLimit(map, ip, t) ==
    LET entry == MapGet(map, ip)
    IN  IF entry = None \/ WindowOver(entry, t)
        THEN [map |-> MapSet(map, ip, [count |-> 1, resetTime |-> t + RATE_WINDOW]),
              result |-> [allowed |-> TRUE, remaining |-> RATE_LIMIT - 1,
                          resetIn |-> RATE_WINDOW]]
        ELSE IF LimitReached(entry)
        THEN [map |-> map,
              result |-> [allowed |-> FALSE, remaining |-> 0,
                          resetIn |-> entry.resetTime - t]]
        ELSE [map |-> MapSet(map, ip, [entry EXCEPT !.count = @ + 1]),
              result |-> [allowed |-> TRUE, remaining |-> RATE_LIMIT - (entry.count + 1),
                          resetIn |-> entry.resetTime - t]]

----------------------------------------------------------------------------
(* lib/portfolio-data.ts: the keyword fallback *)

\* mappings, in the order Object.entries yields them
mappings == <<
    [key |-> "career_summary", keywords |-> <<
        <<"c","a","r","e","e","r">>,
        <<"s","u","m","m","a","r","y">>,
        <<"a","b","o","u","t">>,
        <<"w","h","o">>,
        <<"i","n","t","r","o","d","u","c","t","i","o","n">>,
        <<"i","n","t","r","o">>,
        <<"o","v","e","r","v","i","e","w">>,
        <<"s","h","i","v","a","m">>>>],
    [key |-> "top_projects", keywords |-> <<
        <<"p","r","o","j","e","c","t">>,
        <<"p","r","o","j","e","c","t","s">>,
        <<"w","o","r","k">>,
        <<"p","o","r","t","f","o","l","i","o">>,
        <<"b","u","i","l","t">>,
        <<"m","a","d","e">>,
        <<"s","t","i","l","l">>,
        <<"t","r","a","c","e">>,
        <<"r","a","v","e","l">>,
        <<"t","r","i","n","e","r","a">>,
        <<"l","o","c","a","l","a","i","d">>>>],
    [key |-> "skills_overview", keywords |-> <<
        <<"s","k","i","l","l">>,
        <<"s","k","i","l","l","s">>,
        <<"t","e","c","h">>,
        <<"t","e","c","h","n","o","l","o","g","y">>,
        <<"s","t","a","c","k">>,
        <<"l","a","n","g","u","a","g","e","s">>,
        <<"e","x","p","e","r","t","i","s","e">>,
        <<"k","n","o","w">>>>],
    [key |-> "contact_information", keywords |-> <<
        <<"c","o","n","t","a","c","t">>,
        <<"e","m","a","i","l">>,
        <<"r","e","a","c","h">>,
        <<"c","o","n","n","e","c","t">>,
        <<"s","o","c","i","a","l">>,
        <<"l","i","n","k","e","d","i","n">>,
        <<"g","i","t","h","u","b">>,
        <<"i","n","s","t","a","g","r","a","m">>,
        <<"l","i","n","k","s">>>>]
>>

\* (mutant) the query is matched without lowercasing it
mapQueryToFallbackCaseSensitive(query) ==
    LET q == Trim(query)
        hits == {i \in 1..Len(mappings) :
                    \E k \in 1..Len(mappings[i].keywords) : Includes(q, mappings[i].keywords[k])}
    IN  IF hits = {} THEN "null"
        ELSE mappings[CHOOSE i \in hits : \A j \in hits : i <= j].key

\* mapQueryToFallback: the key of the first mapping with a keyword in the query, or "null"
mapQueryToFallback(query) ==
    LET q == Trim(ToLowerCase(query))
        hits == {i \in 1..Len(mappings) :
                    \E k \in 1..Len(mappings[i].keywords) : Includes(q, mappings[i].keywords[k])}
    IN  IF hits = {} THEN "null"
        ELSE mappings[CHOOSE i \in hits : \A j \in hits : i <= j].key

\* the keys of fallbackResponses
fallbackResponses ==
    {"career_summary", "top_projects", "skills_overview", "contact_information", "no_information"}

----------------------------------------------------------------------------
(* lib/rag/chunks.ts: the corpus and the intent of a query *)

ChunkSection == {"identity", "project", "skills", "creative", "community", "contact", "dsa"}

\* generateChunks(): the chunks in the order they are pushed, by id and source.section
chunks == <<
    [id |-> "identity-about", section |-> "identity"],
    [id |-> "identity-philosophy", section |-> "identity"],
    [id |-> "identity-learning", section |-> "identity"],
    [id |-> "dsa-status", section |-> "dsa"],
    [id |-> "project-still", section |-> "project"],
    [id |-> "project-code-review-system", section |-> "project"],
    [id |-> "project-trace", section |-> "project"],
    [id |-> "project-trinera", section |-> "project"],
    [id |-> "project-localaid-connect", section |-> "project"],
    [id |-> "project-memory-manager-(c++)", section |-> "project"],
    [id |-> "project-ravel-core", section |-> "project"],
    [id |-> "project-ravel-insights", section |-> "project"],
    [id |-> "skills-languages", section |-> "skills"],
    [id |-> "skills-backend", section |-> "skills"],
    [id |-> "skills-databases", section |-> "skills"],
    [id |-> "skills-frontend", section |-> "skills"],
    [id |-> "skills-tools", section |-> "skills"],
    [id |-> "skills-focus", section |-> "skills"],
    [id |-> "creative-work", section |-> "creative"],
    [id |-> "opensource-contributions", section |-> "community"],
    [id |-> "contact-links", section |-> "contact"]
>>

\* portfolioData.projects (lib/portfolio-data.ts): each project by its name and the
\* fields, of those generateChunks reads, that it has
projects == <<
    [name |-> <<"S","t","i","l","l">>,
     has |-> {"status", "category", "tagline", "problem", "approach", "recognition", "links"}],
    [name |-> <<"C","o","d","e"," ","R","e","v","i","e","w"," ","S","y","s","t","e","m">>,
     has |-> {"status", "category", "tagline", "problem", "approach", "learningFocus", "links"}],
    [name |-> <<"T","r","a","c","e">>,
     has |-> {"status", "category", "tagline", "problem", "approach", "context", "links"}],
    [name |-> <<"T","R","I","N","E","R","A">>,
     has |-> {"status", "category", "tagline", "problem", "approach", "links"}],
    [name |-> <<"L","o","c","a","l","A","i","d"," ","C","o","n","n","e","c","t">>,
     has |-> {"status", "category", "tagline", "problem", "approach", "context", "links"}],
    [name |-> <<"M","e","m","o","r","y"," ","M","a","n","a","g","e","r"," ","(","C","+","+",")">>,
     has |-> {"status", "category", "tagline", "learningFocus"}],
    [name |-> <<"R","a","v","e","l"," ","C","o","r","e">>,
     has |-> {"status", "category", "learningFocus"}],
    [name |-> <<"R","a","v","e","l"," ","I","n","s","i","g","h","t","s">>,
     has |-> {"status", "category", "learningFocus"}]
>>

\* the sections of portfolioData that generateChunks tests before it reads them
portfolioSections == {"dsa", "creativeWork", "openSourceAndCommunity"}

\* project[field]: a value, or undefined
Field(project, field) ==
    IF field \in project.has THEN JsString(<<field>>) ELSE JsUndefined

\* a piece of a template literal: the text as written, or `${value}` for the value of a field
Lit(s) == [kind |-> "lit", field |-> "", s |-> s]
Val(field, v) ==
    [kind |-> "val", field |-> field, s |-> IF v.t = "undefined" THEN "undefined" ELSE "value"]

\* String.prototype.replace(/\s+/g, "-") from index i on
RECURSIVE ReplaceSpaces(_, _)
ReplaceSpaces(s, i) ==
    IF i > Len(s) THEN <<>>
    ELSE IF s[i] \in WhiteSpace
    THEN IF i > 1 /\ s[i - 1] \in WhiteSpace
         THEN ReplaceSpaces(s, i + 1)
         ELSE <<"-">> \o ReplaceSpaces(s, i + 1)
    ELSE <<s[i]>> \o ReplaceSpaces(s, i + 1)

ProjectPrefix == <<"p","r","o","j","e","c","t","-">>

\* (mutant) the id is made of the first word of the name
ProjectIdFirstWord(name) ==
    LET lower == ToLowerCase(name)
        ends == {i \in 1..Len(lower) : lower[i] \in WhiteSpace}
        first == IF ends = {} THEN lower
                 ELSE SubSeq(lower, 1, (CHOOSE i \in ends : \A j \in ends : i <= j) - 1)
    IN  ProjectPrefix \o first

\* `project-${project.name.toLowerCase().replace(/\s+/g, '-')}`
ProjectId(name) == ProjectPrefix \o ReplaceSpaces(ToLowerCase(name), 1)

\* the segment appended for an optional field that is truthy
Segment(project, field, label, end) ==
    IF Truthy(Field(project, field))
    THEN <<Lit(label), Val(field, Field(project, field)), Lit(end)>>
    ELSE <<>>

\* projectText, as the pieces it is put together from
ProjectText(project) ==
    <<Lit("Project: "), Val("name", JsString(project.name)), Lit(". "),
      Val("tagline", Field(project, "tagline"))>>
    \o Segment(project, "status", " Status: ", ".")
    \o Segment(project, "category", " Category: ", ".")
    \o Segment(project, "problem", " Problem: ", "")
    \o Segment(project, "approach", " Approach: ", ".")
    \o Segment(project, "recognition", " Recognition: ", ".")
    \o Segment(project, "learningFocus", " Learning focus: ", "")
    \o Segment(project, "context", " Context: ", ".")
    \o Segment(project, "links", " Links: ", ".")

\* `${portfolioData.field}` for a field that portfolioData has
Data(field) == Val(field, JsString(<<field>>))

\* a chunk of a section with a fixed id and no project
Plain(id, section, text) ==
    [id |-> id, text |-> text,
     source |-> [section |-> section, projectName |-> JsUndefined]]

\* the chunk pushed for a project
ProjectChunk(project) ==
    [id |-> ProjectId(project.name), text |-> ProjectText(project),
     source |-> [section |-> "project", projectName |-> JsString(project.name)]]

\* generateChunks(): the corpus in the order the chunks are pushed
generateChunks ==
    <<Plain(<<"i","d","e","n","t","i","t","y","-","a","b","o","u","t">>, "identity",
            <<Data("identity.name"), Lit(" is an "), Data("identity.role"), Lit(". "),
             Data("identity.summary")>>),
      Plain(<<"i","d","e","n","t","i","t","y","-","p","h","i","l","o","s","o","p","h","y">>, "identity",
            <<Lit("Philosophy and approach: "), Data("identity.philosophy")>>),
      Plain(<<"i","d","e","n","t","i","t","y","-","l","e","a","r","n","i","n","g">>, "identity",
            <<Lit("Learning style: "), Data("learningStyle"), Lit(".")>>)>>
    \o (IF "dsa" \in portfolioSections
        THEN <<Plain(<<"d","s","a","-","s","t","a","t","u","s">>, "dsa",
            <<Lit("DSA and LeetCode: "), Data("dsa.status")>>)>> ELSE <<>>)
    \o [k \in 1..Len(projects) |-> ProjectChunk(projects[k])]
    \o <<Plain(<<"s","k","i","l","l","s","-","l","a","n","g","u","a","g","e","s">>, "skills",
            <<Lit("Programming languages: "), Data("skills.languages"), Lit(".")>>),
         Plain(<<"s","k","i","l","l","s","-","b","a","c","k","e","n","d">>, "skills",
            <<Lit("Backend technologies: "), Data("skills.backend"), Lit(".")>>),
         Plain(<<"s","k","i","l","l","s","-","d","a","t","a","b","a","s","e","s">>, "skills",
            <<Lit("Database experience: "), Data("skills.databases"), Lit(".")>>),
         Plain(<<"s","k","i","l","l","s","-","f","r","o","n","t","e","n","d">>, "skills",
            <<Lit("Frontend technologies: "), Data("skills.frontend"), Lit(".")>>),
         Plain(<<"s","k","i","l","l","s","-","t","o","o","l","s">>, "skills",
            <<Lit("Development tools: "), Data("skills.tools"), Lit(".")>>),
         Plain(<<"s","k","i","l","l","s","-","f","o","c","u","s">>, "skills",
            <<Lit("Technical focus: "), Data("skills.focus")>>)>>
    \o (IF "creativeWork" \in portfolioSections
        THEN <<Plain(<<"c","r","e","a","t","i","v","e","-","w","o","r","k">>, "creative",
            <<Lit("Creative work: "), Data("creativeWork.domain"), Lit(". "),
             Data("creativeWork.experience"), Lit(" Tools: "), Data("creativeWork.tools"),
             Lit(". "), Data("creativeWork.perspective")>>)>> ELSE <<>>)
    \o (IF "openSourceAndCommunity" \in portfolioSections
        THEN <<Plain(<<"o","p","e","n","s","o","u","r","c","e","-","c","o","n","t","r","i","b","u","t","i","o","n","s">>, "community",
            <<Lit("Open source contributions: "), Data("openSourceAndCommunity.contributions"),
             Lit(". Programs: "), Data("openSourceAndCommunity.programs"), Lit(". "),
             Data("openSourceAndCommunity.learning")>>)>> ELSE <<>>)
    \o <<Plain(<<"c","o","n","t","a","c","t","-","l","i","n","k","s">>, "contact",
            <<Lit("Contact and social links: "), Data("links"), Lit(".")>>)>>

\* how the id of each chunk of the corpus is spelled
Spell ==
    ("identity-about" :> <<"i","d","e","n","t","i","t","y","-","a","b","o","u","t">>)
    @@ ("identity-philosophy" :> <<"i","d","e","n","t","i","t","y","-","p","h","i","l","o","s","o","p","h","y">>)
    @@ ("identity-learning" :> <<"i","d","e","n","t","i","t","y","-","l","e","a","r","n","i","n","g">>)
    @@ ("dsa-status" :> <<"d","s","a","-","s","t","a","t","u","s">>)
    @@ ("project-still" :> <<"p","r","o","j","e","c","t","-","s","t","i","l","l">>)
    @@ ("project-code-review-system" :> <<"p","r","o","j","e","c","t","-","c","o","d","e","-","r","e","v","i","e","w","-","s","y","s","t","e","m">>)
    @@ ("project-trace" :> <<"p","r","o","j","e","c","t","-","t","r","a","c","e">>)
    @@ ("project-trinera" :> <<"p","r","o","j","e","c","t","-","t","r","i","n","e","r","a">>)
    @@ ("project-localaid-connect" :> <<"p","r","o","j","e","c","t","-","l","o","c","a","l","a","i","d","-","c","o","n","n","e","c","t">>)
    @@ ("project-memory-manager-(c++)" :> <<"p","r","o","j","e","c","t","-","m","e","m","o","r","y","-","m","a","n","a","g","e","r","-","(","c","+","+",")">>)
    @@ ("project-ravel-core" :> <<"p","r","o","j","e","c","t","-","r","a","v","e","l","-","c","o","r","e">>)
    @@ ("project-ravel-insights" :> <<"p","r","o","j","e","c","t","-","r","a","v","e","l","-","i","n","s","i","g","h","t","s">>)
    @@ ("skills-languages" :> <<"s","k","i","l","l","s","-","l","a","n","g","u","a","g","e","s">>)
    @@ ("skills-backend" :> <<"s","k","i","l","l","s","-","b","a","c","k","e","n","d">>)
    @@ ("skills-databases" :> <<"s","k","i","l","l","s","-","d","a","t","a","b","a","s","e","s">>)
    @@ ("skills-frontend" :> <<"s","k","i","l","l","s","-","f","r","o","n","t","e","n","d">>)
    @@ ("skills-tools" :> <<"s","k","i","l","l","s","-","t","o","o","l","s">>)
    @@ ("skills-focus" :> <<"s","k","i","l","l","s","-","f","o","c","u","s">>)
    @@ ("creative-work" :> <<"c","r","e","a","t","i","v","e","-","w","o","r","k">>)
    @@ ("opensource-contributions" :> <<"o","p","e","n","s","o","u","r","c","e","-","c","o","n","t","r","i","b","u","t","i","o","n","s">>)
    @@ ("contact-links" :> <<"c","o","n","t","a","c","t","-","l","i","n","k","s">>)

QueryIntent ==
    {"project", "skills", "contact", "identity", "dsa", "creative", "community", "general"}

\* intentPatterns, in declaration order
intentPatterns == <<
    [intent |-> "contact", priority |-> 10, keywords |-> <<
        <<"c","o","n","t","a","c","t">>,
        <<"e","m","a","i","l">>,
        <<"r","e","a","c","h">>,
        <<"c","o","n","n","e","c","t">>,
        <<"s","o","c","i","a","l">>,
        <<"l","i","n","k","e","d","i","n">>,
        <<"g","i","t","h","u","b">>,
        <<"i","n","s","t","a","g","r","a","m">>,
        <<"l","i","n","k","s">>,
        <<"t","w","i","t","t","e","r">>,
        <<"d","e","v","t","o">>,
        <<"l","e","e","t","c","o","d","e">>>>],
    [intent |-> "dsa", priority |-> 10, keywords |-> <<
        <<"d","s","a">>,
        <<"l","e","e","t","c","o","d","e">>,
        <<"a","l","g","o","r","i","t","h","m">>,
        <<"d","a","t","a"," ","s","t","r","u","c","t","u","r","e">>,
        <<"c","o","m","p","e","t","i","t","i","v","e">>,
        <<"c","o","d","i","n","g"," ","p","r","a","c","t","i","c","e">>>>],
    [intent |-> "project", priority |-> 5, keywords |-> <<
        <<"p","r","o","j","e","c","t">>,
        <<"p","r","o","j","e","c","t","s">>,
        <<"b","u","i","l","t">>,
        <<"m","a","d","e">>,
        <<"c","r","e","a","t","e","d">>,
        <<"s","t","i","l","l">>,
        <<"t","r","a","c","e">>,
        <<"t","r","i","n","e","r","a">>,
        <<"l","o","c","a","l","a","i","d">>,
        <<"r","a","v","e","l">>,
        <<"c","o","d","e"," ","r","e","v","i","e","w">>,
        <<"m","e","m","o","r","y"," ","m","a","n","a","g","e","r">>,
        <<"h","a","c","k","a","t","h","o","n">>,
        <<"w","o","r","k">>,
        <<"p","o","r","t","f","o","l","i","o">>>>],
    [intent |-> "skills", priority |-> 5, keywords |-> <<
        <<"s","k","i","l","l">>,
        <<"s","k","i","l","l","s">>,
        <<"t","e","c","h">>,
        <<"t","e","c","h","n","o","l","o","g","y">>,
        <<"s","t","a","c","k">>,
        <<"l","a","n","g","u","a","g","e","s">>,
        <<"k","n","o","w">>,
        <<"e","x","p","e","r","i","e","n","c","e">>,
        <<"e","x","p","e","r","t","i","s","e">>,
        <<"j","a","v","a","s","c","r","i","p","t">>,
        <<"r","e","a","c","t">>,
        <<"n","o","d","e">>,
        <<"c","+","+">>,
        <<"s","q","l">>,
        <<"b","a","c","k","e","n","d">>,
        <<"f","r","o","n","t","e","n","d">>,
        <<"d","a","t","a","b","a","s","e">>>>],
    [intent |-> "creative", priority |-> 5, keywords |-> <<
        <<"v","i","d","e","o">>,
        <<"e","d","i","t","i","n","g">>,
        <<"c","r","e","a","t","i","v","e">>,
        <<"a","f","t","e","r"," ","e","f","f","e","c","t","s">>,
        <<"p","r","e","m","i","e","r","e">>,
        <<"c","a","p","c","u","t">>,
        <<"f","r","e","e","l","a","n","c","e">>,
        <<"v","i","s","u","a","l">>>>],
    [intent |-> "community", priority |-> 5, keywords |-> <<
        <<"o","p","e","n"," ","s","o","u","r","c","e">>,
        <<"o","p","e","n","s","o","u","r","c","e">>,
        <<"c","o","n","t","r","i","b","u","t","i","o","n">>,
        <<"h","a","c","k","t","o","b","e","r","f","e","s","t">>,
        <<"g","o","o","s","e">>,
        <<"c","o","m","m","u","n","i","t","y">>,
        <<"g","i","t","h","u","b"," ","c","o","n","t","r","i","b","u","t","i","o","n","s">>>>],
    [intent |-> "identity", priority |-> 3, keywords |-> <<
        <<"w","h","o">>,
        <<"a","b","o","u","t">>,
        <<"i","n","t","r","o","d","u","c","t","i","o","n">>,
        <<"i","n","t","r","o">>,
        <<"s","u","m","m","a","r","y">>,
        <<"s","h","i","v","a","m">>,
        <<"b","a","c","k","g","r","o","u","n","d">>,
        <<"p","h","i","l","o","s","o","p","h","y">>,
        <<"a","p","p","r","o","a","c","h">>,
        <<"l","e","a","r","n","i","n","g"," ","s","t","y","l","e">>>>]
>>

\* Array.prototype.sort is stable: the place of pattern i after sorting by b.priority - a.priority
PlaceByPriority(patterns, i) ==
    1 + Cardinality({j \in 1..Len(patterns) :
                        \/ patterns[j].priority > patterns[i].priority
                        \/ patterns[j].priority = patterns[i].priority /\ j < i})

\* (mutant) the patterns are sorted by ascending priority
sortedPatternsAscending ==
    [k \in 1..Len(intentPatterns) |->
        intentPatterns[CHOOSE i \in 1..Len(intentPatterns) :
                          PlaceByPriority(intentPatterns, i) = Len(intentPatterns) + 1 - k]]

\* [...intentPatterns].sort((a, b) => b.priority - a.priority)
sortedPatterns ==
    [k \in 1..Len(intentPatterns) |->
        intentPatterns[CHOOSE i \in 1..Len(intentPatterns) : PlaceByPriority(intentPatterns, i) = k]]

\* pattern.keywords.some(kw => q.includes(kw))
SomeKeyword(pattern, q) ==
    \E k \in 1..Len(pattern.keywords) : Includes(q, pattern.keywords[k])

\* the loop of classifyIntent over sortedPatterns from place k on
RECURSIVE ClassifyFrom(_, _)
ClassifyFrom(q, k) ==
    IF k > Len(sortedPatterns) THEN "general"
    ELSE IF SomeKeyword(sortedPatterns[k], q) THEN sortedPatterns[k].intent
    ELSE ClassifyFrom(q, k + 1)

\* classifyIntent
classifyIntent(query) == ClassifyFrom(Trim(ToLowerCase(query)), 1)

\* (mutant) the project intent searches the project section only
getSectionsForIntentProjectOnly(intent) ==
    CASE intent = "project"   -> <<"project">>
      [] intent = "skills"    -> <<"skills", "identity">>
      [] intent = "contact"   -> <<"contact">>
      [] intent = "identity"  -> <<"identity">>
      [] intent = "dsa"       -> <<"dsa", "skills">>
      [] intent = "creative"  -> <<"creative", "identity">>
      [] intent = "community" -> <<"community", "identity">>
      [] OTHER -> <<"identity", "project", "skills", "creative", "community", "contact", "dsa">>

\* getSectionsForIntent
getSectionsForIntent(intent) ==
    CASE intent = "project"   -> <<"project", "identity">>
      [] intent = "skills"    -> <<"skills", "identity">>
      [] intent = "contact"   -> <<"contact">>
      [] intent = "identity"  -> <<"identity">>
      [] intent = "dsa"       -> <<"dsa", "skills">>
      [] intent = "creative"  -> <<"creative", "identity">>
      [] intent = "community" -> <<"community", "identity">>
      [] OTHER -> <<"identity", "project", "skills", "creative", "community", "contact", "dsa">>

\* Array.prototype.includes
ArrayIncludes(arr, x) == \E i \in 1..Len(arr) : arr[i] = x

----------------------------------------------------------------------------
(* lib/rag/search.ts *)

\* A score is the real number num / sqrt(sq), sq > 0, kept exact
Score(num, sq) == [num |-> num, sq |-> sq]

\* the score 0
Zero == Score(0, 1)

\* SIMILARITY_THRESHOLD = 0.25, that is 1 / sqrt(16)
SIMILARITY_THRESHOLD == Score(1, 16)
TOP_K == 3

\* x >= y on scores
ScoreGE(x, y) ==
    CASE x.num >= 0 /\ y.num <= 0 -> TRUE
      [] x.num < 0 /\ y.num >= 0  -> FALSE
      [] x.num >= 0 /\ y.num > 0  -> x.num * x.num * y.sq >= y.num * y.num * x.sq
      [] OTHER                    -> x.num * x.num * y.sq <= y.num * y.num * x.sq

ScoreEQ(x, y) == ScoreGE(x, y) /\ ScoreGE(y, x)
ScoreGT(x, y) == ScoreGE(x, y) /\ ~ScoreGE(y, x)

\* the loop of cosineSimilarity from index i on: sum of f[i] * g[i]
RECURSIVE SumProducts(_, _, _)
SumProducts(f, g, i) ==
    IF i > Len(f) THEN 0 ELSE f[i] * g[i] + SumProducts(f, g, i + 1)

\* (mutant) the dot product is divided by the magnitude of a only
cosineSimilarityByOneNorm(a, b) ==
    IF Len(a) # Len(b) THEN Zero
    ELSE LET dotProduct == SumProducts(a, b, 1)
             normA == SumProducts(a, a, 1)
             normB == SumProducts(b, b, 1)
         IN  IF normA * normB = 0 THEN Zero ELSE Score(dotProduct, normA)

\* cosineSimilarity
cosineSimilarity(a, b) ==
    IF Len(a) # Len(b) THEN Zero
    ELSE LET dotProduct == SumProducts(a, b, 1)
             normA == SumProducts(a, a, 1)
             normB == SumProducts(b, b, 1)
         IN  \* magnitude = sqrt(normA) * sqrt(normB)
             IF normA * normB = 0 THEN Zero ELSE Score(dotProduct, normA * normB)

\* chunkEmbeddings: null until loadEmbeddings has run, then a Map from chunk id to vector
NotLoaded == [loaded |-> FALSE, map |-> <<>>]

\* loadEmbeddings: the Map already there, or a new one (there is no embeddings.json to import)
loadEmbeddings(embeddings) ==
    IF embeddings.loaded THEN embeddings ELSE [loaded |-> TRUE, map |-> <<>>]

\* getFallbackChunks
getFallbackChunks ==
    SelectSeq(chunks, LAMBDA c : c.id = "identity-about" \/ c.id = "identity-philosophy")

\* (mutant) the chunks are not filtered
relevantChunksOfAny(relevantSections) == chunks

\* chunks.filter(c => relevantSections.includes(c.source.section))
relevantChunksOf(relevantSections) ==
    SelectSeq(chunks, LAMBDA c : ArrayIncludes(relevantSections, c.section))

\* (mutant) the sort puts equal scores in the reverse of their order in results
PlaceByScoreTiesReversed(results, i) ==
    1 + Cardinality({j \in 1..Len(results) :
                        \/ ScoreGT(results[j].score, results[i].score)
                        \/ ScoreEQ(results[j].score, results[i].score) /\ j > i})

\* the place of results[i] after the stable  results.sort((a, b) => b.score - a.score)
PlaceByScore(results, i) ==
    1 + Cardinality({j \in 1..Len(results) :
                        \/ ScoreGT(results[j].score, results[i].score)
                        \/ ScoreEQ(results[j].score, results[i].score) /\ j < i})

SortByScore(results) ==
    [k \in 1..Len(results) |->
        results[CHOOSE i \in 1..Len(results) : PlaceByScore(results, i) = k]]

\* (mutant) the first TOP_K results are taken without sorting
TopResultsUnsorted(results) ==
    SubSeq(results, 1, IF Len(results) < TOP_K THEN Len(results) ELSE TOP_K)

\* results.sort(...); results.slice(0, TOP_K)
TopResults(results) ==
    LET sorted == SortByScore(results)
    IN  SubSeq(sorted, 1, IF Len(sorted) < TOP_K THEN Len(sorted) ELSE TOP_K)

\* (mutant) the fallback is every chunk of the identity section
RagResultWideFallback(intent, results) ==
    LET topResults == TopResults(results)
    IN  IF Len(topResults) = 0
        THEN [intent |-> intent,
              results |-> [k \in 1..Len(relevantChunksOf(<<"identity">>)) |->
                              [chunk |-> relevantChunksOf(<<"identity">>)[k], score |-> Zero]],
              fallbackUsed |-> TRUE]
        ELSE [intent |-> intent, results |-> topResults, fallbackUsed |-> FALSE]

\* steps 5 and 6 of ragSearch: what it returns for the results above the threshold
RagResult(intent, results) ==
    LET topResults == TopResults(results)
    IN  IF Len(topResults) = 0
        THEN [intent |-> intent,
              results |-> [k \in 1..Len(getFallbackChunks) |->
                              [chunk |-> getFallbackChunks[k], score |-> Zero]],
              fallbackUsed |-> TRUE]
        ELSE [intent |-> intent, results |-> topResults, fallbackUsed |-> FALSE]

\* no invocation of ragSearch yet
IdleSearch ==
    [pc |-> "idle", query |-> <<>>, intent |-> "none", relevantChunks |-> <<>>,
     queryEmbedding |-> <<>>, i |-> 0, results |-> <<>>, result |-> None,
     \* history of this invocation
     scored |-> <<>>,      \* every candidate scored so far, with its embedding and score
     failure |-> "none",   \* the call of the Embedding Provider that failed
     attempts |-> 0]       \* the failed attempts of the call of the Embedding Provider in flight

\* ragSearch after a chunk has been scored: the loop goes on, or steps 5 and 6 return
AfterScoring(sr) ==
    IF sr.i <= Len(sr.relevantChunks) THEN sr
    ELSE [sr EXCEPT !.pc = "returned", !.result = RagResult(sr.intent, sr.results)]

\* the body of the loop for the chunk at sr.i, whose embedding is chunkEmbedding
ScoreChunk(sr, chunkEmbedding) ==
    LET chunk == sr.relevantChunks[sr.i]
        score == cosineSimilarity(sr.queryEmbedding, chunkEmbedding)
    IN  AfterScoring([sr EXCEPT
            !.i = @ + 1, !.attempts = 0,
            !.results = IF ScoreGE(score, SIMILARITY_THRESHOLD)
                        THEN Append(@, [chunk |-> chunk, score |-> score]) ELSE @,
            !.scored = Append(@, [chunk |-> chunk, embedding |-> chunkEmbedding,
                                  score |-> score])])

\* ragSearch up to  await embedQuery(query): steps 1 and 2
RagSearch(query) ==
    /\ search.pc \in {"idle", "returned", "thrown"}
    /\ budget # 0
    /\ budget' = IF budget > 0 THEN budget - 1 ELSE budget
    /\ LET intent == classifyIntent(query)
           relevantSections == getSectionsForIntent(intent)
       IN  search' = [IdleSearch EXCEPT !.pc = "embedQuery", !.query = query, !.intent = intent,
                         !.relevantChunks = relevantChunksOf(relevantSections)]
    /\ UNCHANGED chunkEmbeddings
    /\ UNCHANGED <<routeVars, pageVars, getting>>

\* embed({ model, value }) is called without maxRetries, in getChunkEmbedding and in
\* embedQuery alike: the client library retries as often as it does by itself, which
\* is twice (generateObject is given maxRetries: 1 to reduce that)
EmbedMaxRetries == 2

\* an attempt of embedQuery's call fails and the client library makes another
EmbedQueryAttemptFails ==
    /\ search.pc = "embedQuery"
    /\ search.attempts < EmbedMaxRetries
    /\ search' = [search EXCEPT !.attempts = @ + 1]
    /\ UNCHANGED <<chunkEmbeddings, budget>>
    /\ UNCHANGED <<routeVars, pageVars, getting>>

\* embedQuery resolves with an embedding: the loop starts
EmbedQueryResolves(embedding) ==
    /\ search.pc = "embedQuery"
    /\ search' = AfterScoring([search EXCEPT !.pc = "score", !.queryEmbedding = embedding,
                                  !.i = 1, !.attempts = 0])
    /\ UNCHANGED <<chunkEmbeddings, budget>>
    /\ UNCHANGED <<routeVars, pageVars, getting>>

\* (mutant) the failure is swallowed and the search goes on with nothing above the threshold
EmbedQueryRejectsSwallowed ==
    /\ search.pc = "embedQuery"
    /\ search' = [search EXCEPT !.pc = "returned", !.failure = "embedQuery",
                     !.result = RagResult(search.intent, <<>>)]
    /\ UNCHANGED <<chunkEmbeddings, budget>>
    /\ UNCHANGED <<routeVars, pageVars, getting>>

\* embedQuery rejects: nothing catches it and ragSearch rejects
EmbedQueryRejects ==
    /\ search.pc = "embedQuery"
    /\ search' = [search EXCEPT !.pc = "thrown", !.failure = "embedQuery"]
    /\ UNCHANGED <<chunkEmbeddings, budget>>
    /\ UNCHANGED <<routeVars, pageVars, getting>>

\* getChunkEmbedding finds the chunk's embedding in the Map
ChunkEmbeddingCached ==
    /\ search.pc = "score"
    /\ LET embeddings == loadEmbeddings(chunkEmbeddings)
           chunk == search.relevantChunks[search.i]
       IN  /\ chunk.id \in DOMAIN embeddings.map
           /\ chunkEmbeddings' = embeddings
           /\ search' = ScoreChunk(search, embeddings.map[chunk.id])
    /\ UNCHANGED budget
    /\ UNCHANGED <<routeVars, pageVars, getting>>

\* getChunkEmbedding has the chunk embedded, an attempt fails and the client library
\* makes another
ChunkEmbedAttemptFails ==
    /\ search.pc = "score"
    /\ search.attempts < EmbedMaxRetries
    /\ LET embeddings == loadEmbeddings(chunkEmbeddings)
           chunk == search.relevantChunks[search.i]
       IN  /\ chunk.id \notin DOMAIN embeddings.map
           /\ chunkEmbeddings' = embeddings
           /\ search' = [search EXCEPT !.attempts = @ + 1]
    /\ UNCHANGED budget
    /\ UNCHANGED <<routeVars, pageVars, getting>>

\* getChunkEmbedding has the chunk embedded, and embed resolves
ChunkEmbedResolves(embedding) ==
    /\ search.pc = "score"
    /\ LET embeddings == loadEmbeddings(chunkEmbeddings)
           chunk == search.relevantChunks[search.i]
       IN  /\ chunk.id \notin DOMAIN embeddings.map
           /\ chunkEmbeddings' = [embeddings EXCEPT !.map = MapSet(@, chunk.id, embedding)]
           /\ search' = ScoreChunk(search, embedding)
    /\ UNCHANGED budget
    /\ UNCHANGED <<routeVars, pageVars, getting>>

\* getChunkEmbedding has the chunk embedded, and embed rejects: ragSearch rejects
ChunkEmbedRejects ==
    /\ search.pc = "score"
    /\ LET embeddings == loadEmbeddings(chunkEmbeddings)
           chunk == search.relevantChunks[search.i]
       IN  /\ chunk.id \notin DOMAIN embeddings.map
           /\ chunkEmbeddings' = embeddings
           /\ search' = [search EXCEPT !.pc = "thrown", !.failure = "embed"]
    /\ UNCHANGED budget
    /\ UNCHANGED <<routeVars, pageVars, getting>>

(* getChunkEmbedding called by searches in flight at once: each call holds the Map
   that loadEmbeddings gave it across its awaits *)

\* number of calls of getChunkEmbedding in flight at once
MaxOverlap == 2

GetSlots == 1..MaxOverlap

\* no call in the slot
IdleGet ==
    [pc |-> "idle", id |-> "none", embeddings |-> 0, value |-> <<>>,
     \* history of this call
     after |-> FALSE,     \* an embedding of the chunk had been stored when the call started
     invoked |-> FALSE]   \* the call invoked the Embedding Provider

\* no call yet: no Map made, chunkEmbeddings null
NoGets ==
    [maps |-> <<>>,       \* the Map objects made so far
     current |-> 0,       \* the one chunkEmbeddings refers to (0: null)
     stored |-> {},       \* history: the chunks for which embeddings.set has run
     call |-> [s \in GetSlots |-> IdleGet]]

\* chunkEmbeddings, as the Map it refers to
Referred(g) ==
    IF g.current = 0 THEN NotLoaded ELSE [loaded |-> TRUE, map |-> g.maps[g.current]]

\* getChunkEmbedding(chunk) up to the end of the synchronous part of loadEmbeddings:
\* the Map there is returned, or the import is awaited
GetChunkEmbedding(s, id) ==
    /\ getting.call[s].pc \in {"idle", "returned", "thrown"}
    /\ budget # 0
    /\ budget' = IF budget > 0 THEN budget - 1 ELSE budget
    /\ getting' = [getting EXCEPT !.call[s] =
                      [IdleGet EXCEPT !.pc = IF getting.current # 0 THEN "has" ELSE "import",
                                      !.id = id, !.embeddings = getting.current,
                                      !.after = id \in getting.stored]]
    /\ UNCHANGED <<chunkEmbeddings, search>>
    /\ UNCHANGED <<routeVars, pageVars>>

\* the import settles: chunkEmbeddings is assigned a new Map, whatever it referred to
ImportSettles(s) ==
    /\ getting.call[s].pc = "import"
    /\ LET made == Append(getting.maps, loadEmbeddings(NotLoaded).map)
       IN  getting' = [getting EXCEPT !.maps = made, !.current = Len(made),
                                      !.call[s].pc = "has", !.call[s].embeddings = Len(made)]
    /\ chunkEmbeddings' = Referred(getting')
    /\ UNCHANGED search
    /\ UNCHANGED <<budget, routeVars, pageVars>>

\* embeddings.has(chunk.id): the embedding is returned, or embed is called
HasEmbedding(s) ==
    /\ getting.call[s].pc = "has"
    /\ LET c == getting.call[s]
           embeddings == getting.maps[c.embeddings]
       IN  getting' = [getting EXCEPT !.call[s] =
                          IF c.id \in DOMAIN embeddings
                          THEN [c EXCEPT !.pc = "returned", !.value = embeddings[c.id]]
                          ELSE [c EXCEPT !.pc = "embed", !.invoked = TRUE]]
    /\ UNCHANGED <<chunkEmbeddings, search>>
    /\ UNCHANGED <<budget, routeVars, pageVars>>

\* embed resolves: embeddings.set(chunk.id, embedding) on the Map the call holds
GetEmbedResolves(s, embedding) ==
    /\ getting.call[s].pc = "embed"
    /\ LET c == getting.call[s]
       IN  getting' = [getting EXCEPT
                          !.maps[c.embeddings] = MapSet(@, c.id, embedding),
                          !.stored = @ \cup {c.id},
                          !.call[s] = [c EXCEPT !.pc = "returned", !.value = embedding]]
    /\ chunkEmbeddings' = Referred(getting')
    /\ UNCHANGED search
    /\ UNCHANGED <<budget, routeVars, pageVars>>

\* embed rejects: getChunkEmbedding rejects
GetEmbedRejects(s) ==
    /\ getting.call[s].pc = "embed"
    /\ getting' = [getting EXCEPT !.call[s].pc = "thrown"]
    /\ UNCHANGED <<chunkEmbeddings, search>>
    /\ UNCHANGED <<budget, routeVars, pageVars>>

----------------------------------------------------------------------------
(* app/api/query/route.ts: POST *)

\* headers.get gives null for an absent header; null and "" are both falsy
HeaderAbsent == ""

\* req.headers.get("x-forwarded-for") || req.headers.get("x-real-ip") || "unknown"
ClientIp(headers) ==
    IF headers.xff # HeaderAbsent THEN headers.xff
    ELSE IF headers.xreal # HeaderAbsent THEN headers.xreal
    ELSE "unknown"

\* (mutant) the check  !query  is left out
QueryAcceptedAnyString(query) == IsString(query)

\* the request passes  if (!query || typeof query !== "string")
QueryAccepted(query) == Truthy(query) /\ IsString(query)

\* query.trim().toLowerCase()
NormalizeQuery(q) == ToLowerCase(Trim(q))

Separator == <<"_", "_">>

\* context ? `${normalizedQuery}__${context}` : normalizedQuery
CacheKey(normalizedQuery, context) ==
    IF Truthy(context) THEN normalizedQuery \o Separator \o context.s ELSE normalizedQuery

\* Math.ceil(a / b) for a >= 0, b > 0
Ceil(a, b) == (a + b - 1) \div b

NoResponse ==
    [status |-> 0, success |-> FALSE, data |-> "none", cached |-> FALSE,
     fallback |-> FALSE, quotaReached |-> FALSE, error |-> "none", wait |-> 0]

\* Response.json({success: false, error: `Rate limit exceeded. Please wait N seconds.`}, {status: 429})
RateLimitedResponse(resetIn) ==
    [NoResponse EXCEPT !.status = 429, !.error = "Rate limit exceeded. Please wait",
                       !.wait = Ceil(resetIn, 1000)]

\* Response.json({success: false, error: "Query is required"}, {status: 400})
InvalidResponse == [NoResponse EXCEPT !.status = 400, !.error = "Query is required"]

\* Response.json({success: false, error: "An error occurred"}, {status: 500})
ErrorResponse == [NoResponse EXCEPT !.status = 500, !.error = "An error occurred"]

\* Response.json({success: true, data, cached, fallback?}), status 200
OkResponse(data, cached, fallback) ==
    [NoResponse EXCEPT !.status = 200, !.success = TRUE, !.data = data,
                       !.cached = cached, !.fallback = fallback]

\* the portfolio content of systemPrompt: JSON.stringify(portfolioData), the whole of the
\* data the chunks are cut from, named by the chunks
systemPrompt == {chunks[k].id : k \in 1..Len(chunks)}

\* an invocation slot with no request in it
IdleReq ==
    [pc |-> "idle", ip |-> "", body |-> None, key |-> <<>>, resp |-> NoResponse,
     \* history of this invocation
     at |-> 0,             \* when checkRateLimit ran
     pre |-> None,         \* the client's rate-limit entry before it ran
     post |-> None,        \* the client's rate-limit entry after it ran
     seen |-> None,        \* the client's logged window before it ran
     rl |-> None,          \* what checkRateLimit returned
     looked |-> FALSE,     \* getCachedResponse was called
     lookupAt |-> 0,       \* when
     found |-> None,       \* the cache entry under the key before the lookup
     foundBy |-> None,     \* the (query, context) that stored it
     fresh |-> None,       \* the last generated response to this (query, context) before the lookup
     canned |-> None,      \* the last pre-defined response stored under this cacheKey before the lookup
     exceeded |-> FALSE,   \* isDailyQuotaExceeded() at the lookup
     generated |-> FALSE,  \* generateObject was called
     system |-> {},        \* the portfolio content it was given
     calls |-> <<>>,       \* the functions of lib/ and the clients called so far, in order
     outcome |-> "none",   \* "resolved" or "rejected"
     finishedAfter |-> {}, \* the slots, still unanswered, whose generation finished before this one's
     attempts |-> 0,       \* the failed attempts of generateObject
     wrote |-> {}]         \* the shared state this invocation changed

\* history: the window of a client's allowed requests, counted from the request that opened it
LogAllowed(log, ip, t) ==
    IF ip \notin DOMAIN log \/ t > log[ip].t0 + RATE_WINDOW
    THEN MapSet(log, ip, [t0 |-> t, allowed |-> 1])
    ELSE MapSet(log, ip, [log[ip] EXCEPT !.allowed = @ + 1])

\* the request (query, context) as the caller sent it
Asked(body) == [query |-> body.query, context |-> body.context]

\* history: the entries of newCache that differ from oldCache were stored for asked
Attribute(by, oldCache, newCache, asked) ==
    [k \in DOMAIN newCache |->
        IF k \in DOMAIN oldCache /\ oldCache[k] = newCache[k] /\ k \in DOMAIN by
        THEN by[k] ELSE asked]

\* POST up to  await req.json(): the client id and the rate limit
Arrive(s, headers, body) ==
    /\ req[s].pc = "idle"
    /\ budget # 0
    /\ budget' = IF budget > 0 THEN budget - 1 ELSE budget
    /\ LET ip == ClientIp(headers)
           rateLimit == checkRateLimit(rateLimitMap, ip, now)
           started == [IdleReq EXCEPT !.ip = ip, !.body = body, !.at = now,
                          !.pre = MapGet(rateLimitMap, ip), !.seen = MapGet(windowLog, ip),
                          !.post = MapGet(rateLimit.map, ip),
                          !.rl = rateLimit.result, !.calls = <<"checkRateLimit">>,
                          !.wrote = IF rateLimit.map # rateLimitMap THEN {"rateLimitMap"} ELSE {}]
       IN  /\ rateLimitMap' = rateLimit.map
           /\ windowLog' = IF rateLimit.result.allowed
                           THEN LogAllowed(windowLog, ip, now) ELSE windowLog
           /\ req' = [req EXCEPT ![s] =
                        IF ~rateLimit.result.allowed
                        THEN [started EXCEPT !.pc = "done",
                                 !.resp = RateLimitedResponse(rateLimit.result.resetIn)]
                        ELSE [started EXCEPT !.pc = "json"]]
    /\ UNCHANGED <<now, responseCache, dailyCallCount, freshLog, storedBy>>
    /\ UNCHANGED <<ragVars, pageVars, cannedLog>>

\* POST from the body to  await generateObject(...): validation and the cache lookup
ReadBody(s) ==
    /\ req[s].pc = "json"
    /\ LET r == req[s]
           body == r.body
       IN  IF ~body.json
           THEN /\ req' = [req EXCEPT ![s] = [r EXCEPT !.pc = "done", !.resp = ErrorResponse]]
                /\ UNCHANGED <<responseCache, storedBy>>
           ELSE IF ~QueryAccepted(body.query)
           THEN /\ req' = [req EXCEPT ![s] = [r EXCEPT !.pc = "done", !.resp = InvalidResponse]]
                /\ UNCHANGED <<responseCache, storedBy>>
           ELSE LET normalizedQuery == NormalizeQuery(body.query.s)
                    cacheKey == CacheKey(normalizedQuery, body.context)
                    got == getCachedResponse(responseCache, cacheKey, now)
                    looked == [r EXCEPT !.looked = TRUE, !.lookupAt = now, !.key = cacheKey,
                                  !.calls = Append(@, "getCachedResponse"),
                                  !.fresh = MapGet(freshLog, Asked(body)),
                                  !.canned = MapGet(cannedLog, cacheKey),
                                  !.found = MapGet(responseCache, NormalizeCacheQuery(cacheKey)),
                                  !.foundBy = MapGet(storedBy, NormalizeCacheQuery(cacheKey)),
                                  !.exceeded = isDailyQuotaExceeded(dailyCallCount),
                                  !.wrote = IF got.cache # responseCache
                                            THEN @ \cup {"responseCache"} ELSE @]
                IN  /\ responseCache' = got.cache
                    /\ storedBy' = Attribute(storedBy, responseCache, got.cache, Asked(body))
                    /\ req' = [req EXCEPT ![s] =
                                 IF got.response # "null"
                                 THEN [looked EXCEPT !.pc = "done",
                                          !.resp = OkResponse(got.response, TRUE, FALSE)]
                                 ELSE [looked EXCEPT !.pc = "generate", !.generated = TRUE,
                                          !.system = systemPrompt,
                                          !.calls = Append(@, "generateObject")]]
    /\ UNCHANGED <<now, rateLimitMap, dailyCallCount, budget, windowLog, freshLog>>
    /\ UNCHANGED <<ragVars, pageVars, cannedLog>>

\* history: the slots, other than s, holding a request whose generation has finished
Finished(s) == {t \in DOMAIN req \ {s} : req[t].pc = "done" /\ req[t].generated}

\* (mutant) the object is cached only when the key has no entry
GenerateResolvesKeepFirst(s, object) ==
    /\ req[s].pc = "generate"
    /\ LET r == req[s]
           cache == IF NormalizeCacheQuery(r.key) \in DOMAIN responseCache THEN responseCache
                    ELSE setCachedResponse(responseCache, r.key, object, now)
       IN  /\ responseCache' = cache
           /\ freshLog' = MapSet(freshLog, Asked(r.body), [data |-> object, at |-> now])
           /\ storedBy' = Attribute(storedBy, responseCache, cache, Asked(r.body))
           /\ req' = [req EXCEPT ![s] =
                        [r EXCEPT !.pc = "done", !.resp = OkResponse(object, FALSE, FALSE),
                            !.outcome = "resolved", !.finishedAfter = Finished(s),
                            !.calls = Append(@, "setCachedResponse")]]
    /\ UNCHANGED <<now, rateLimitMap, dailyCallCount, budget, windowLog>>
    /\ UNCHANGED <<ragVars, pageVars, cannedLog>>

\* generateObject({ ..., maxRetries: 1 })
GenerateMaxRetries == 1

\* an attempt of generateObject fails and the client library makes another
GenerateAttemptFails(s) ==
    /\ req[s].pc = "generate"
    /\ req[s].attempts < GenerateMaxRetries
    /\ req' = [req EXCEPT ![s] = [req[s] EXCEPT !.attempts = @ + 1]]
    /\ UNCHANGED <<now, rateLimitMap, responseCache, dailyCallCount, budget, windowLog,
                   freshLog, storedBy>>
    /\ UNCHANGED <<ragVars, pageVars, cannedLog>>

\* generateObject resolves with an object: it is cached and returned
GenerateResolves(s, object) ==
    /\ req[s].pc = "generate"
    /\ LET r == req[s]
           cache == setCachedResponse(responseCache, r.key, object, now)
       IN  /\ responseCache' = cache
           /\ freshLog' = MapSet(freshLog, Asked(r.body), [data |-> object, at |-> now])
           /\ storedBy' = Attribute(storedBy, responseCache, cache, Asked(r.body))
           /\ req' = [req EXCEPT ![s] =
                        [r EXCEPT !.pc = "done", !.resp = OkResponse(object, FALSE, FALSE),
                            !.outcome = "resolved", !.finishedAfter = Finished(s),
                            !.calls = Append(@, "setCachedResponse"),
                            !.wrote = IF cache # responseCache
                                      THEN @ \cup {"responseCache"} ELSE @]]
    /\ UNCHANGED <<now, rateLimitMap, dailyCallCount, budget, windowLog>>
    /\ UNCHANGED <<ragVars, pageVars, cannedLog>>

\* (mutant) the rejection reaches the outer catch block
GenerateRejectsUncaught(s) ==
    /\ req[s].pc = "generate"
    /\ req' = [req EXCEPT ![s] = [req[s] EXCEPT !.pc = "done", !.outcome = "rejected",
                                     !.resp = ErrorResponse]]
    /\ UNCHANGED <<now, rateLimitMap, responseCache, dailyCallCount, budget, windowLog,
                   freshLog, storedBy>>
    /\ UNCHANGED <<ragVars, pageVars, cannedLog>>

\* (mutant) the pre-defined response is returned without being cached
GenerateRejectsNotStored(s) ==
    /\ req[s].pc = "generate"
    /\ LET r == req[s]
           fallbackKey == mapQueryToFallback(r.body.query.s)
       IN  req' = [req EXCEPT ![s] =
                     [r EXCEPT !.pc = "done", !.outcome = "rejected",
                         !.calls = Append(@, "mapQueryToFallback"),
                         !.resp = OkResponse(IF fallbackKey # "null" THEN fallbackKey
                                             ELSE "no_information", FALSE, TRUE)]]
    /\ UNCHANGED <<now, rateLimitMap, responseCache, dailyCallCount, budget, windowLog,
                   freshLog, storedBy>>
    /\ UNCHANGED <<ragVars, pageVars, cannedLog>>

\* history: the other invocations awaiting generateObject for the same cache entry
Generating(s, key) ==
    {t \in DOMAIN req \ {s} :
        req[t].pc = "generate" /\ NormalizeCacheQuery(req[t].key) = NormalizeCacheQuery(key)}

\* generateObject rejects: the catch block answers with a pre-defined response
GenerateRejects(s) ==
    /\ req[s].pc = "generate"
    /\ LET r == req[s]
           fallbackKey == mapQueryToFallback(r.body.query.s)
       IN  IF fallbackKey # "null" /\ fallbackKey \in fallbackResponses
           THEN LET cache == setCachedResponse(responseCache, r.key, fallbackKey, now)
                IN  /\ responseCache' = cache
                    /\ storedBy' = Attribute(storedBy, responseCache, cache, Asked(r.body))
                    /\ cannedLog' = MapSet(cannedLog, r.key,
                                           [data |-> fallbackKey, at |-> now,
                                            alone |-> Generating(s, r.key) = {}])
                    /\ req' = [req EXCEPT ![s] =
                                 [r EXCEPT !.pc = "done", !.outcome = "rejected",
                                     !.finishedAfter = Finished(s),
                                     !.resp = OkResponse(fallbackKey, FALSE, TRUE),
                                     !.calls = @ \o <<"mapQueryToFallback", "setCachedResponse">>,
                                     !.wrote = IF cache # responseCache
                                               THEN @ \cup {"responseCache"} ELSE @]]
           ELSE /\ req' = [req EXCEPT ![s] =
                             [r EXCEPT !.pc = "done", !.outcome = "rejected",
                                 !.finishedAfter = Finished(s),
                                 !.calls = Append(@, "mapQueryToFallback"),
                                 !.resp = OkResponse("no_information", FALSE, TRUE)]]
                /\ UNCHANGED <<responseCache, storedBy, cannedLog>>
    /\ UNCHANGED <<now, rateLimitMap, dailyCallCount, budget, windowLog, freshLog>>
    /\ UNCHANGED <<ragVars, pageVars>>

\* the response has been delivered and the invocation is over
Respond(s) ==
    /\ req[s].pc = "done"
    /\ req' = [t \in DOMAIN req |->
                 IF t = s THEN IdleReq ELSE [req[t] EXCEPT !.finishedAfter = @ \ {s}]]
    /\ UNCHANGED <<now, rateLimitMap, responseCache, dailyCallCount, budget, windowLog, freshLog, storedBy>>
    /\ UNCHANGED <<ragVars, pageVars, cannedLog>>

\* incrementDailyCallCount, exported by lib/cache.ts
incrementDailyCallCount ==
    /\ dailyCallCount < DAILY_LIMIT + MaxOverQuota
    /\ dailyCallCount' = dailyCallCount + 1
    /\ UNCHANGED <<now, rateLimitMap, responseCache, req, budget, windowLog, freshLog, storedBy>>
    /\ UNCHANGED <<ragVars, pageVars, cannedLog>>

\* the instants the clock is observed at around the end of a rate window
WindowInstants ==
    {0, 1} \cup {k * RATE_WINDOW + d : k \in 1..MaxWindows, d \in {-1, 0, 1}}

\* the instants the clock is observed at around the expiry of a cache entry
TtlInstants == {0} \cup {CACHE_TTL + d : d \in {-1, 0, 1}}

\* time passes: Date.now() never goes back
Tick(t) ==
    /\ t > now
    /\ now' = t
    /\ UNCHANGED <<rateLimitMap, responseCache, dailyCallCount, req, budget, windowLog, freshLog, storedBy>>
    /\ UNCHANGED <<ragVars, pageVars, cannedLog>>

----------------------------------------------------------------------------
(* The page component: handleSearch *)

\* number of searches the page issues
MaxPageSearches == 2

PageCalls == 1..MaxPageSearches

\* useState(false), useState<PanelResponse | null>(null), useState(false), useState(false)
InitialPage ==
    [isSearching |-> FALSE, searchResult |-> None, showResult |-> FALSE, quotaReached |-> FALSE]

\* handleSearch not called yet
IdleHandle == [pc |-> "idle", body |-> None, outcome |-> "none"]

\* the body of the response as the server sent it: the JSON text of what POST returned
Sent(resp) ==
    [parses |-> TRUE, null |-> FALSE, success |-> resp.success, data |-> resp.data,
     error |-> resp.error, quotaReached |-> resp.quotaReached]

\* the body is the JSON text  null
JsonNull == [parses |-> TRUE, null |-> TRUE]

\* the body is not JSON
Garbled == [parses |-> FALSE]

\* the panel of the else branch:  description: data.error || "Something went wrong. Please try again."
ErrorPanel(error) ==
    [title |-> "Error",
     description |-> IF error # "none" THEN error ELSE "Something went wrong. Please try again."]

\* the panel of the catch block
ConnectionErrorPanel ==
    [title |-> "Connection Error",
     description |-> "Unable to connect. Please check your connection and try again."]

\* the panel the server sent as data.data
DataPanel(data) == [title |-> "data", description |-> data]

\* handleSearch up to  await fetch("/api/query", ...)
HandleSearch(i) ==
    /\ handle[i].pc = "idle"
    /\ handle' = [handle EXCEPT ![i] = [IdleHandle EXCEPT !.pc = "fetch"]]
    /\ page' = [isSearching |-> TRUE, showResult |-> TRUE, searchResult |-> None,
                quotaReached |-> FALSE]
    /\ UNCHANGED <<routeVars, ragVars, budget>>

\* fetch resolves with a response, whatever its status
FetchResolves(i, body) ==
    /\ handle[i].pc = "fetch"
    /\ handle' = [handle EXCEPT ![i] = [@ EXCEPT !.pc = "json", !.body = body]]
    /\ UNCHANGED <<page, routeVars, ragVars, budget>>

\* (mutant) a rejection is not caught: only the finally block runs
CaughtNoPanel(pg) == [pg EXCEPT !.isSearching = FALSE]

\* the catch block, then the finally block
Caught(pg) == [pg EXCEPT !.searchResult = ConnectionErrorPanel, !.isSearching = FALSE]

\* fetch rejects (the network failed): the catch block, then the finally block
FetchRejects(i) ==
    /\ handle[i].pc = "fetch"
    /\ handle' = [handle EXCEPT ![i] = [@ EXCEPT !.pc = "returned", !.outcome = "network"]]
    /\ page' = Caught(page)
    /\ UNCHANGED <<routeVars, ragVars, budget>>

\* response.json() resolves with data: the if, then the finally block; reading
\* data.success of null throws a TypeError, which the catch block takes
JsonResolves(i) ==
    /\ handle[i].pc = "json"
    /\ handle[i].body.parses
    /\ LET data == handle[i].body
       IN  IF data.null
           THEN /\ page' = Caught(page)
                /\ handle' = [handle EXCEPT ![i] = [@ EXCEPT !.pc = "returned",
                                                              !.outcome = "null"]]
           ELSE IF data.success /\ data.data # "none"
           THEN /\ page' = [page EXCEPT !.searchResult = DataPanel(data.data),
                                        !.quotaReached = data.quotaReached,
                                        !.isSearching = FALSE]
                /\ handle' = [handle EXCEPT ![i] = [@ EXCEPT !.pc = "returned",
                                                              !.outcome = "data"]]
           ELSE /\ page' = [page EXCEPT !.searchResult = ErrorPanel(data.error),
                                        !.isSearching = FALSE]
                /\ handle' = [handle EXCEPT ![i] = [@ EXCEPT !.pc = "returned",
                                                              !.outcome = "error"]]
    /\ UNCHANGED <<routeVars, ragVars, budget>>

\* response.json() rejects (the body is not JSON): the catch block, then the finally block
JsonRejects(i) ==
    /\ handle[i].pc = "json"
    /\ ~handle[i].body.parses
    /\ handle' = [handle EXCEPT ![i] = [@ EXCEPT !.pc = "returned", !.outcome = "garbled"]]
    /\ page' = Caught(page)
    /\ UNCHANGED <<routeVars, ragVars, budget>>

----------------------------------------------------------------------------
(* Inputs *)

Q_empty == <<>>
Q_blank == <<" ">>
Q_who   == <<"W", "h", "o", " ">>
Q_hi    == <<"h", "i">>
Q_both  == <<"k", "n", "o", "w", "W", "H", "O">>
C_x     == <<"x">>
C_X     == <<"X">>

Headers ==
    {[xff |-> "10.0.0.1", xreal |-> HeaderAbsent],
     [xff |-> HeaderAbsent, xreal |-> "10.0.0.1"],
     [xff |-> HeaderAbsent, xreal |-> HeaderAbsent]}

Unparsable == [json |-> FALSE]
Body(query, context) == [json |-> TRUE, query |-> query, context |-> context]

Contexts == {JsUndefined, JsString(C_x), JsString(C_X)}

\* bodies that cannot be parsed, or whose query is missing, not a string, or empty
InvalidBodies ==
    {Unparsable} \cup
    {Body(q, JsUndefined) : q \in {JsUndefined, JsNumber(42), JsString(Q_empty)}}

\* fresh questions: no context
Bodies ==
    InvalidBodies \cup
    {Body(JsString(q), JsUndefined) : q \in {Q_blank, Q_who, Q_hi, Q_both}}

\* one question asked fresh and as a follow-up to two topics
FollowUpBodies == {Body(JsString(Q_who), c) : c \in Contexts}

Objects == {"object1", "object2"}

\* number of requests sent to the endpoint
MaxRequests == 2
\* number of times the one question is asked
MaxFollowUps == 3

Start(slots, requests) ==
    /\ now = 0
    /\ rateLimitMap = <<>>
    /\ responseCache = <<>>
    /\ dailyCallCount = 0
    /\ req = [s \in slots |-> IdleReq]
    /\ budget = requests
    /\ windowLog = <<>>
    /\ freshLog = <<>>
    /\ storedBy = <<>>
    /\ cannedLog = <<>>
    /\ chunkEmbeddings = NotLoaded
    /\ search = IdleSearch
    /\ getting = NoGets
    /\ page = InitialPage
    /\ handle = [i \in PageCalls |-> IdleHandle]

(* The endpoint under a bounded number of requests of one client, valid or not *)

Init == Start({1}, MaxRequests)

Next ==
    \/ \E s \in DOMAIN req, b \in Bodies :
          Arrive(s, [xff |-> HeaderAbsent, xreal |-> HeaderAbsent], b)
    \/ \E s \in DOMAIN req : ReadBody(s)
    \/ \E s \in DOMAIN req, o \in Objects : GenerateResolves(s, o)
    \/ \E s \in DOMAIN req : GenerateRejects(s)
    \/ \E s \in DOMAIN req : Respond(s)
    \/ \E t \in TtlInstants : Tick(t)

Spec == Init /\ [][Next]_vars

(* The endpoint under a bounded number of requests with one question, asked fresh or
   as a follow-up *)

InitCache == Start({1}, MaxFollowUps)

NextCache ==
    \/ \E s \in DOMAIN req, b \in FollowUpBodies :
          Arrive(s, [xff |-> HeaderAbsent, xreal |-> HeaderAbsent], b)
    \/ \E s \in DOMAIN req : ReadBody(s)
    \/ \E s \in DOMAIN req, o \in Objects : GenerateResolves(s, o)
    \/ \E s \in DOMAIN req : GenerateRejects(s)
    \/ \E s \in DOMAIN req : Respond(s)
    \/ \E t \in TtlInstants : Tick(t)

SpecCache == InitCache /\ [][NextCache]_vars

(* The endpoint with the daily counter moved by callers of incrementDailyCallCount *)

InitQuota == Start({1}, MaxRequests)

NextQuota ==
    \/ \E s \in DOMAIN req :
          Arrive(s, [xff |-> HeaderAbsent, xreal |-> HeaderAbsent],
                 Body(JsString(Q_who), JsUndefined))
    \/ \E s \in DOMAIN req : ReadBody(s)
    \/ \E s \in DOMAIN req : GenerateResolves(s, "object1")
    \/ \E s \in DOMAIN req : GenerateRejects(s)
    \/ \E s \in DOMAIN req : Respond(s)
    \/ incrementDailyCallCount

SpecQuota == InitQuota /\ [][NextQuota]_vars

(* The rate limiter under any number of requests, of two clients, that fail validation *)

InitRate == Start({1}, -1)

NextRate ==
    \/ \E s \in DOMAIN req, h \in Headers, b \in InvalidBodies : Arrive(s, h, b)
    \/ \E s \in DOMAIN req : ReadBody(s)
    \/ \E s \in DOMAIN req : Respond(s)
    \/ \E t \in WindowInstants : Tick(t)

SpecRate == InitRate /\ [][NextRate]_vars

(* Retrieval over the chunks of narrow intents, with every embedding the provider may
   give *)

\* embeddings: along the query's, across it, just under and well over the threshold
\* from it, opposite to it, of no magnitude, and of another dimension
Vectors == {<<1, 0>>, <<0, 1>>, <<4, 1>>, <<-1, 0>>, <<0, 0>>, <<1>>}

S_email == <<"e", "m", "a", "i", "l">>
S_goose == <<"G", "o", "o", "s", "e", " ">>

\* questions of the contact, identity and community intents: 1, 3 and 4 candidate chunks
SearchQueries == {S_email, Q_who, S_goose}

\* number of calls of ragSearch
MaxSearches == 2

InitSearch == Start({1}, MaxSearches)

NextSearch ==
    \/ \E q \in SearchQueries : RagSearch(q)
    \/ \E v \in Vectors : EmbedQueryResolves(v)
    \/ EmbedQueryRejects
    \/ ChunkEmbeddingCached
    \/ \E v \in Vectors : ChunkEmbedResolves(v)
    \/ ChunkEmbedRejects

SpecSearch == InitSearch /\ [][NextSearch]_vars

(* Classification and candidate selection for every keyword of intentPatterns, with a
   provider that embeds every chunk alike *)

\* every keyword of every pattern
Keywords ==
    UNION {{intentPatterns[i].keywords[k] : k \in 1..Len(intentPatterns[i].keywords)} :
              i \in 1..Len(intentPatterns)}

S_many == <<"W", "h", "o", " ", "k", "n", "o", "w", "s", " ", "L", "e", "e", "t", "C", "o", "d", "e", " ">>
S_two  == <<"o", "p", "e", "n", " ", "s", "o", "u", "r", "c", "e", " ", "p", "r", "o", "j", "e", "c", "t">>
S_mix  == <<"W", "h", "o", " ", "b", "u", "i", "l", "t">>

\* the keywords, and questions with no keyword, with keywords of several patterns, in
\* upper case and with white space around
IntentQueries == Keywords \cup {Q_empty, Q_hi, S_many, S_two, S_mix}

InitIntent == Start({1}, 1)

NextIntent ==
    \/ \E q \in IntentQueries : RagSearch(q)
    \/ \E v \in {<<1, 0>>, <<0, 1>>} : EmbedQueryResolves(v)
    \/ EmbedQueryRejects
    \/ ChunkEmbedResolves(<<1, 0>>)
    \/ ChunkEmbedRejects

SpecIntent == InitIntent /\ [][NextIntent]_vars

(* Two invocations of POST in flight at once, asked one question in two spellings *)

S_who == <<"w", "h", "o">>

\* bodies with one cache key
PairBodies == {Body(JsString(Q_who), JsUndefined), Body(JsString(S_who), JsUndefined)}

\* number of requests sent to the two invocations
MaxPair == 2

InitPair == Start({1, 2}, MaxPair)

NextPair ==
    \/ \E s \in DOMAIN req, b \in PairBodies :
          Arrive(s, [xff |-> HeaderAbsent, xreal |-> HeaderAbsent], b)
    \/ \E s \in DOMAIN req : ReadBody(s)
    \/ \E s \in DOMAIN req, o \in Objects : GenerateResolves(s, o)
    \/ \E s \in DOMAIN req : GenerateRejects(s)
    \/ \E s \in DOMAIN req : Respond(s)
    \/ \E t \in TtlInstants : Tick(t)

SpecPair == InitPair /\ [][NextPair]_vars

(* One question asked again and again, by requests in flight at once or one after
   another, with generations that fail *)

\* number of requests sent to the two invocations
MaxSticky == 3

InitSticky == Start({1, 2}, MaxSticky)

NextSticky ==
    \/ \E s \in DOMAIN req :
          Arrive(s, [xff |-> HeaderAbsent, xreal |-> HeaderAbsent],
                 Body(JsString(Q_who), JsUndefined))
    \/ \E s \in DOMAIN req : ReadBody(s)
    \/ \E s \in DOMAIN req : GenerateResolves(s, "object1")
    \/ \E s \in DOMAIN req : GenerateRejects(s)
    \/ \E s \in DOMAIN req : Respond(s)
    \/ \E t \in TtlInstants : Tick(t)

SpecSticky == InitSticky /\ [][NextSticky]_vars

(* The calls of the Generation Client and of the Embedding Provider with attempts
   that fail *)

\* number of requests and of calls of ragSearch together
MaxCalls == 2

InitRetry == Start({1}, MaxCalls)

NextRetry ==
    \/ Arrive(1, [xff |-> HeaderAbsent, xreal |-> HeaderAbsent],
              Body(JsString(Q_who), JsUndefined))
    \/ ReadBody(1)
    \/ GenerateAttemptFails(1)
    \/ \E o \in Objects : GenerateResolves(1, o)
    \/ GenerateRejects(1)
    \/ Respond(1)
    \/ RagSearch(S_email)
    \/ EmbedQueryAttemptFails
    \/ EmbedQueryResolves(<<1, 0>>)
    \/ EmbedQueryRejects
    \/ ChunkEmbedAttemptFails
    \/ ChunkEmbedResolves(<<1, 0>>)
    \/ ChunkEmbedRejects

SpecRetry == InitRetry /\ [][NextRetry]_vars

(* Searches in flight at once, each at its calls of getChunkEmbedding *)

\* number of calls of getChunkEmbedding
MaxGets == 3

\* the chunks asked for
GetChunks == {"contact-links", "identity-about"}

InitOverlap == Start({1}, MaxGets)

NextOverlap ==
    \/ \E s \in GetSlots, id \in GetChunks : GetChunkEmbedding(s, id)
    \/ \E s \in GetSlots : ImportSettles(s)
    \/ \E s \in GetSlots : HasEmbedding(s)
    \/ \E s \in GetSlots, v \in {<<1, 0>>, <<0, 1>>} : GetEmbedResolves(s, v)
    \/ \E s \in GetSlots : GetEmbedRejects(s)

SpecOverlap == InitOverlap /\ [][NextOverlap]_vars

(* The page issuing searches, before or while earlier ones are answered, against
   every kind of answer *)

\* what the server answers: the responses of POST, the JSON text null, and a body
\* that is not JSON
ServerBodies ==
    {Sent(OkResponse("object1", FALSE, FALSE)), Sent(OkResponse("object2", TRUE, FALSE)),
     Sent(InvalidResponse), Sent(RateLimitedResponse(1000)), Sent(ErrorResponse),
     JsonNull, Garbled}

InitPage == Start({1}, 0)

\* fetch settles
FetchSettles(i) == (\E b \in ServerBodies : FetchResolves(i, b)) \/ FetchRejects(i)

\* response.json() settles
JsonSettles(i) == JsonResolves(i) \/ JsonRejects(i)

NextPage ==
    \/ \E i \in PageCalls : HandleSearch(i)
    \/ \E i \in PageCalls, b \in ServerBodies : FetchResolves(i, b)
    \/ \E i \in PageCalls : FetchRejects(i)
    \/ \E i \in PageCalls : JsonResolves(i)
    \/ \E i \in PageCalls : JsonRejects(i)

\* every fetch gets an outcome, and every body read ends
SpecPage ==
    /\ InitPage
    /\ [][NextPage]_vars
    /\ \A i \in PageCalls : WF_vars(FetchSettles(i)) /\ WF_vars(JsonSettles(i))

----------------------------------------------------------------------------
(* Properties *)

TypeOK == now >= 0 /\ dailyCallCount >= 0

Active(s) == req[s].pc # "idle"

\* the invocation in slot s was the request after RATE_LIMIT allowed ones of its
\* client, inside the window those opened
OverLimit(s) ==
    /\ Active(s)
    /\ req[s].seen # None
    /\ req[s].seen.allowed >= RATE_LIMIT
    /\ req[s].at <= req[s].seen.t0 + RATE_WINDOW

\* C1: per client, at most RATE_LIMIT requests are allowed within one window (from
\* the request that opened it at t0 until resetTime = t0 + RATE_WINDOW), and the
\* request after them inside the window is denied and answered with HTTP 429,
\* success=false and the wait-time message.
C1_RateLimit ==
    /\ \A ip \in DOMAIN windowLog :
          /\ windowLog[ip].allowed <= RATE_LIMIT
          /\ ip \in DOMAIN rateLimitMap
          /\ rateLimitMap[ip].resetTime = windowLog[ip].t0 + RATE_WINDOW
    /\ \A s \in DOMAIN req :
          OverLimit(s) =>
             /\ ~req[s].rl.allowed
             /\ req[s].pc = "done"
             /\ req[s].resp.status = 429
             /\ ~req[s].resp.success
             /\ req[s].resp.error = "Rate limit exceeded. Please wait"
             /\ req[s].resp.wait = Ceil(req[s].seen.t0 + RATE_WINDOW - req[s].at, 1000)

\* a request arrived later than the window's first instant, as the one after
\* RATE_LIMIT allowed requests, and was answered with 429
C1_Witness ==
    \E s \in DOMAIN req :
        /\ OverLimit(s)
        /\ req[s].at > req[s].seen.t0
        /\ req[s].resp.status = 429

\* C2 as stated: every call at a time now >= resetTime, now = resetTime included,
\* is allowed and replaces the entry with count = 1, resetTime = now + RATE_WINDOW.
C2_AsStated ==
    \A s \in DOMAIN req :
        (Active(s) /\ req[s].pre # None /\ req[s].at >= req[s].pre.resetTime) =>
            /\ req[s].rl.allowed
            /\ req[s].post = [count |-> 1, resetTime |-> req[s].at + RATE_WINDOW]

\* C2 (amended): a new window starts only after resetTime.  Every call at a time
\* now > resetTime is allowed, even when the old window was full, and replaces the
\* entry with count = 1, resetTime = now + RATE_WINDOW; a call at now = resetTime
\* still belongs to the old window: it is counted in it, or denied when it is full.
C2_NewWindow ==
    \A s \in DOMAIN req :
        (Active(s) /\ req[s].pre # None) =>
            /\ req[s].at > req[s].pre.resetTime =>
                  /\ req[s].rl = [allowed |-> TRUE, remaining |-> RATE_LIMIT - 1,
                                  resetIn |-> RATE_WINDOW]
                  /\ req[s].post = [count |-> 1, resetTime |-> req[s].at + RATE_WINDOW]
            /\ req[s].at = req[s].pre.resetTime =>
                  /\ req[s].post.resetTime = req[s].pre.resetTime
                  /\ req[s].rl.allowed <=> req[s].pre.count < RATE_LIMIT
                  /\ req[s].post.count =
                        IF req[s].rl.allowed THEN req[s].pre.count + 1 ELSE req[s].pre.count

\* a request was allowed after the reset time of a window that was full
C2_Witness ==
    \E s \in DOMAIN req :
        /\ Active(s)
        /\ req[s].pre # None
        /\ req[s].pre.count >= RATE_LIMIT
        /\ req[s].at > req[s].pre.resetTime
        /\ req[s].rl.allowed

\* C3: a denied call of checkRateLimit (count at or above RATE_LIMIT inside the
\* window) does not increment: the whole map, this client's entry and every other
\* client's, is unchanged, remaining is 0 and resetIn is resetTime - now.
C3_DeniedLeavesMap ==
    [][\A s \in DOMAIN req :
          (req[s].pc = "idle" /\ req'[s].pc # "idle"
              /\ req'[s].ip \in DOMAIN rateLimitMap
              /\ rateLimitMap[req'[s].ip].count >= RATE_LIMIT
              /\ now <= rateLimitMap[req'[s].ip].resetTime) =>
                /\ ~req'[s].rl.allowed
                /\ rateLimitMap' = rateLimitMap
                /\ req'[s].rl.remaining = 0
                /\ req'[s].rl.resetIn = rateLimitMap[req'[s].ip].resetTime - now]_vars

\* a request was denied while another client had a window of its own
C3_Witness ==
    \E s \in DOMAIN req :
        /\ Active(s)
        /\ ~req[s].rl.allowed
        /\ req[s].post = req[s].pre
        /\ \E ip \in DOMAIN rateLimitMap : ip # req[s].ip

\* C4 as stated: a lookup less than CACHE_TTL after the store returns the stored
\* response and leaves the entry as it is; a lookup CACHE_TTL or more after the
\* store misses and removes the entry.
C4_AsStated ==
    [][\A s \in DOMAIN req :
          (req[s].pc = "json" /\ req'[s].looked) =>
             LET k == NormalizeCacheQuery(req'[s].key)
                 entry == MapGet(responseCache, k)
             IN  entry # None =>
                    IF now - entry.timestamp < CACHE_TTL
                    THEN /\ req'[s].pc = "done"
                         /\ req'[s].resp = OkResponse(entry.response, TRUE, FALSE)
                         /\ responseCache' = responseCache
                    ELSE /\ req'[s].pc = "generate"
                         /\ k \notin DOMAIN responseCache']_vars

\* C5: a request whose (query, context) was answered by a generation less than
\* CACHE_TTL before its cache lookup is answered cached=true with the data of that
\* response, and generateObject is not called for it.
C5_RepeatIsCached ==
    \A s \in DOMAIN req :
        (req[s].looked /\ req[s].fresh # None
            /\ req[s].lookupAt - req[s].fresh.at < CACHE_TTL) =>
              /\ req[s].pc = "done"
              /\ req[s].resp = OkResponse(req[s].fresh.data, TRUE, FALSE)
              /\ ~req[s].generated

\* the same (query, context) was asked again, later but within the TTL, and answered
\* from the cache
C5_Witness ==
    \E s \in DOMAIN req :
        /\ req[s].looked
        /\ req[s].fresh # None
        /\ req[s].lookupAt > req[s].fresh.at
        /\ req[s].lookupAt - req[s].fresh.at < CACHE_TTL
        /\ req[s].resp.cached

\* two requests ask the same thing: equal normalized queries and equal contexts
SameQuestion(a, b) ==
    /\ NormalizeQuery(a.query.s) = NormalizeQuery(b.query.s)
    /\ a.context = b.context

\* C6 as stated: a request reads (or overwrites) a cache entry only if the request
\* that stored it had the same normalized query and the same context.
C6_AsStated ==
    \A s \in DOMAIN req :
        (req[s].looked /\ req[s].found # None /\ req[s].foundBy # None) =>
            SameQuestion(req[s].foundBy, Asked(req[s].body))

\* the body parses and its query is missing, not a string, or the empty string
FailsValidation(body) ==
    /\ body.json
    /\ \/ ~IsString(body.query)
       \/ body.query.s = <<>>

\* C7 as stated: a request that fails validation is answered with an error and
\* has changed nothing: not the rate-limit map, not the cache, not the counter.
C7_AsStated ==
    \A s \in DOMAIN req :
        (req[s].pc = "done" /\ FailsValidation(req[s].body)) =>
            /\ ~req[s].resp.success
            /\ req[s].wrote = {}

\* C7 (amended): a request that fails validation is answered with an error (400,
\* or 429 when its client is over the limit) without a cache lookup or a
\* generation, and leaves the cache and the daily counter alone; an allowed one is
\* counted by the rate limiter, which runs before the body is read.
C7_InvalidOnlyCounted ==
    \A s \in DOMAIN req :
        (req[s].pc = "done" /\ FailsValidation(req[s].body)) =>
            /\ ~req[s].resp.success
            /\ ~req[s].looked
            /\ ~req[s].generated
            /\ dailyCallCount = 0
            /\ IF req[s].rl.allowed
               THEN /\ req[s].resp = InvalidResponse
                    /\ req[s].wrote = {"rateLimitMap"}
                    /\ req[s].post.count = IF req[s].pre = None \/ req[s].post.resetTime # req[s].pre.resetTime
                                           THEN 1 ELSE req[s].pre.count + 1
               ELSE /\ req[s].resp.status = 429
                    /\ req[s].wrote = {}

\* an empty query was answered 400 while the cache held an entry
C7_Witness ==
    \E s \in DOMAIN req :
        /\ req[s].pc = "done"
        /\ req[s].body = Body(JsString(Q_empty), JsUndefined)
        /\ req[s].resp.status = 400
        /\ DOMAIN responseCache # {}

\* the query is missing, not a string, empty, or only white space
NoQuery(query) == ~IsString(query) \/ Trim(query.s) = <<>>

\* C8 as stated: an allowed request whose query is missing, not a string, empty or
\* only white space is answered 400 with success=false, and neither the cache
\* lookup nor generateObject is reached.
C8_AsStated ==
    \A s \in DOMAIN req :
        (Active(s) /\ req[s].pc # "json" /\ req[s].rl.allowed /\ req[s].body.json
            /\ NoQuery(req[s].body.query)) =>
              /\ req[s].pc = "done"
              /\ req[s].resp.status = 400
              /\ ~req[s].resp.success
              /\ ~req[s].looked
              /\ ~req[s].generated

\* the pre-defined response for a query: that of the first mapping, in
\* declaration order, with a keyword in the lowercased query, else no_information
ExpectedFallback(q) ==
    LET lq == ToLowerCase(q)
        hits == {i \in 1..Len(mappings) :
                    \E k \in 1..Len(mappings[i].keywords) : Includes(lq, mappings[i].keywords[k])}
    IN  IF hits = {} THEN "no_information"
        ELSE mappings[CHOOSE i \in hits : \A j \in hits : i <= j].key

\* C9: when generateObject fails, the answer is status 200, success=true, with the
\* pre-defined response of the first mapping that has a keyword in the lowercased
\* query, and no_information when there is none.
C9_FallbackOnFailure ==
    \A s \in DOMAIN req :
        (req[s].pc = "done" /\ req[s].outcome = "rejected") =>
            /\ req[s].resp = OkResponse(ExpectedFallback(req[s].body.query.s), FALSE, TRUE)
            /\ req[s].resp.data \in fallbackResponses

\* a failed generation for a query with keywords of two mappings, in capitals, was
\* answered with the first mapping's response
C9_Witness ==
    \E s \in DOMAIN req :
        /\ req[s].pc = "done"
        /\ req[s].outcome = "rejected"
        /\ req[s].body.query = JsString(Q_both)
        /\ req[s].resp.data = "career_summary"

GenerationSucceeds ==
    \E s \in DOMAIN req : req[s].pc = "generate" /\ req'[s].outcome = "resolved"

C11_AsStated ==
    [][dailyCallCount' = IF GenerationSucceeds THEN dailyCallCount + 1 ELSE dailyCallCount]_vars

\* the chunks of a list of results, as a set of ids
ResultIds(results) == {results[k].chunk.id : k \in 1..Len(results)}

\* ragSearch has returned a result
Returned == search.pc = "returned"

\* C13: every result of ragSearch with fallbackUsed=false is non-empty, has at most
\* TOP_K pairs, each a scored candidate with score >= SIMILARITY_THRESHOLD, sorted by
\* score in descending order, and no candidate left out of it scores higher than a
\* chunk that is in it.
C13_Threshold ==
    (Returned /\ ~search.result.fallbackUsed) =>
        LET results == search.result.results
        IN  /\ Len(results) >= 1
            /\ Len(results) <= TOP_K
            /\ \A k \in 1..Len(results) :
                  /\ ScoreGE(results[k].score, SIMILARITY_THRESHOLD)
                  /\ \E c \in 1..Len(search.scored) :
                        /\ search.scored[c].chunk = results[k].chunk
                        /\ search.scored[c].score = results[k].score
            /\ \A k \in 1..(Len(results) - 1) : ScoreGE(results[k].score, results[k + 1].score)
            /\ \A c \in 1..Len(search.scored) :
                  search.scored[c].chunk.id \notin ResultIds(results) =>
                      \A k \in 1..Len(results) :
                          ~ScoreGT(search.scored[c].score, results[k].score)

\* a search with more than TOP_K candidates over the threshold, of different scores,
\* has returned
C13_Witness ==
    /\ Returned
    /\ ~search.result.fallbackUsed
    /\ Len(search.result.results) = TOP_K
    /\ ScoreGT(search.result.results[1].score, search.result.results[TOP_K].score)
    /\ \E c \in 1..Len(search.scored) :
          /\ search.scored[c].chunk.id \notin ResultIds(search.result.results)
          /\ ScoreGE(search.scored[c].score, SIMILARITY_THRESHOLD)

\* the chunks whose section is eligible for the intent, as a set of ids
Eligible(intent) ==
    {chunks[k].id : k \in {j \in 1..Len(chunks) :
                              ArrayIncludes(getSectionsForIntent(intent), chunks[j].section)}}

\* some chunk eligible for the search's intent was scored at SIMILARITY_THRESHOLD or over
SomeEligibleOverThreshold ==
    \E c \in 1..Len(search.scored) :
        /\ search.scored[c].chunk.id \in Eligible(search.intent)
        /\ ScoreGE(search.scored[c].score, SIMILARITY_THRESHOLD)

\* C14: ragSearch returns fallbackUsed=true exactly when no candidate chunk of the
\* intent's eligible sections scores >= SIMILARITY_THRESHOLD, and then the result is
\* exactly the identity-about and identity-philosophy chunks, each with score 0,
\* whatever the query and its intent.
C14_Fallback ==
    Returned =>
        /\ {search.scored[c].chunk.id : c \in 1..Len(search.scored)} = Eligible(search.intent)
        /\ search.result.fallbackUsed <=> ~SomeEligibleOverThreshold
        /\ search.result.fallbackUsed =>
              /\ Len(search.result.results) = 2
              /\ search.result.results[1].chunk.id = "identity-about"
              /\ search.result.results[2].chunk.id = "identity-philosophy"
              /\ \A k \in 1..2 : search.result.results[k].score = Zero

\* a contact search whose one candidate scored just under the threshold has returned
\* the fallback set
C14_Witness ==
    /\ Returned
    /\ search.result.fallbackUsed
    /\ search.intent = "contact"
    /\ \E c \in 1..Len(search.scored) :
          /\ ScoreGT(search.scored[c].score, Zero)
          /\ ~ScoreGE(search.scored[c].score, SIMILARITY_THRESHOLD)

\* the squared magnitude of a vector
NormSq(v) == SumProducts(v, v, 1)

\* C15: cosineSimilarity gives 0 for two vectors of different length and for
\* equal-length vectors one of which has zero magnitude, and otherwise a value in
\* [-1, 1], that is dot^2 <= normA * normB; it gives a value for every pair.
C15_Cosine ==
    \A c \in 1..Len(search.scored) :
        LET a == search.queryEmbedding
            b == search.scored[c].embedding
            score == search.scored[c].score
        IN  /\ score = cosineSimilarity(a, b)
            /\ score.sq > 0
            /\ Len(a) # Len(b) => score = Zero
            /\ (Len(a) = Len(b) /\ (NormSq(a) = 0 \/ NormSq(b) = 0)) => score = Zero
            /\ (Len(a) = Len(b) /\ NormSq(a) > 0 /\ NormSq(b) > 0) =>
                  /\ score.sq = NormSq(a) * NormSq(b)
                  /\ score.num * score.num <= score.sq

\* one search has scored a chunk of another dimension, a chunk of zero magnitude, a
\* chunk opposite to the query and a chunk neither along nor across it
C15_Witness ==
    LET a == search.queryEmbedding
        Scored(P(_)) == \E c \in 1..Len(search.scored) : P(search.scored[c])
    IN  /\ NormSq(a) > 0
        /\ Scored(LAMBDA e : Len(e.embedding) # Len(a))
        /\ Scored(LAMBDA e : Len(e.embedding) = Len(a) /\ NormSq(e.embedding) = 0)
        /\ Scored(LAMBDA e : e.score.num < 0)
        /\ Scored(LAMBDA e : e.score.num > 0 /\ e.score.num * e.score.num < e.score.sq)

\* C16: when the Embedding Provider fails to embed the query, ragSearch fails with the
\* error: it returns no result set, neither an empty list nor the fallback set.
C16_EmbedFailurePropagates ==
    search.failure = "embedQuery" =>
        /\ search.pc = "thrown"
        /\ search.result = None
        /\ search.scored = <<>>

\* the provider has failed on the query of a search
C16_Witness == search.failure = "embedQuery" /\ search.query = S_goose

\* ragSearch has been called and has classified its query
Classified == search.pc # "idle"

\* the patterns with a keyword that occurs in q
Matching(q) ==
    {i \in 1..Len(intentPatterns) :
        \E k \in 1..Len(intentPatterns[i].keywords) : Includes(q, intentPatterns[i].keywords[k])}

\* pattern i comes before pattern j: higher priority, or the same and declared earlier
Before(i, j) ==
    \/ intentPatterns[i].priority > intentPatterns[j].priority
    \/ intentPatterns[i].priority = intentPatterns[j].priority /\ i < j

\* C18: classifyIntent returns exactly one intent: that of the first pattern, in
\* descending priority order and declaration order among equals, with a keyword that
\* is a substring of the lowercased, trimmed query, and "general" when there is none;
\* the intent is a function of the query.
C18_FirstMatch ==
    Classified =>
        LET q == Trim(ToLowerCase(search.query))
        IN  /\ search.intent \in QueryIntent
            /\ search.intent = classifyIntent(search.query)
            /\ Matching(q) = {} => search.intent = "general"
            /\ Matching(q) # {} =>
                  \E i \in Matching(q) :
                      /\ \A j \in Matching(q) \ {i} : Before(i, j)
                      /\ search.intent = intentPatterns[i].intent

\* a query in mixed case with keywords of two patterns of the top priority and of
\* patterns of lower priorities has been classified
C18_Witness ==
    /\ Classified
    /\ search.query # ToLowerCase(search.query)
    /\ LET M == Matching(Trim(ToLowerCase(search.query)))
       IN  /\ \E i, j \in M : i # j /\ intentPatterns[i].priority = intentPatterns[j].priority
                                    /\ \A k \in M : intentPatterns[k].priority <= intentPatterns[i].priority
           /\ \E i, j \in M : intentPatterns[i].priority > intentPatterns[j].priority

\* C19: every keyword listed for an intent selects that intent: a query consisting of
\* exactly a keyword of a pattern is classified as that pattern's intent.
C19_AsStated ==
    Classified =>
        \A i \in 1..Len(intentPatterns) :
            \A k \in 1..Len(intentPatterns[i].keywords) :
                search.query = intentPatterns[i].keywords[k] =>
                    search.intent = intentPatterns[i].intent

\* the sections of a list, as a set
Sections(list) == {list[k] : k \in 1..Len(list)}

\* the ids of a list of chunks, as a set
ChunkIds(list) == {list[k].id : k \in 1..Len(list)}

\* C20: getSectionsForIntent gives every intent a non-empty list of chunk sections, all
\* seven for "general" and exactly project and identity for "project"; the candidates
\* ragSearch scores are exactly the chunks whose section is in the list of the
\* classified intent.
C20_Candidates ==
    /\ \A intent \in QueryIntent :
          /\ Len(getSectionsForIntent(intent)) >= 1
          /\ Sections(getSectionsForIntent(intent)) \subseteq ChunkSection
    /\ Sections(getSectionsForIntent("general")) = ChunkSection
    /\ Len(getSectionsForIntent("general")) = 7
    /\ Sections(getSectionsForIntent("project")) = {"project", "identity"}
    /\ Classified =>
          LET wanted == {chunks[k].id : k \in {j \in 1..Len(chunks) :
                            chunks[j].section \in
                                Sections(getSectionsForIntent(classifyIntent(search.query)))}}
          IN  /\ ChunkIds(search.relevantChunks) = wanted
              /\ Len(search.relevantChunks) = Cardinality(wanted)
              /\ ChunkIds([k \in 1..Len(search.scored) |-> search.scored[k].chunk])
                    \subseteq wanted
              /\ Returned =>
                    ChunkIds([k \in 1..Len(search.scored) |-> search.scored[k].chunk]) = wanted

\* a search of the project intent has scored the eight project chunks and the three
\* identity chunks and returned
C20_Witness ==
    /\ Returned
    /\ search.intent = "project"
    /\ Len(search.scored) = 11
    /\ \E k \in 1..Len(search.scored) : search.scored[k].chunk.section = "identity"

\* the place of the first call of f among calls, or 0
FirstCall(calls, f) ==
    IF \E i \in 1..Len(calls) : calls[i] = f
    THEN CHOOSE i \in 1..Len(calls) : calls[i] = f /\ \A j \in 1..(i - 1) : calls[j] # f
    ELSE 0

\* C12: on a cache miss retrieval runs before generation and only the retrieved
\* context is forwarded: generateObject is called only after ragSearch was, and the
\* portfolio content it is given is at most TOP_K chunks (the scored chunks or the
\* fallback set), never the whole corpus.
C12_AsStated ==
    \A s \in DOMAIN req :
        req[s].generated =>
            /\ FirstCall(req[s].calls, "ragSearch") > 0
            /\ FirstCall(req[s].calls, "ragSearch") < FirstCall(req[s].calls, "generateObject")
            /\ Cardinality(req[s].system) <= TOP_K
            /\ req[s].system # {chunks[k].id : k \in 1..Len(chunks)}

\* the body of the request in slot s could not be parsed: req.json() threw
BodyUnparsable(s) == req[s].rl.allowed /\ ~req[s].body.json

ChunksOfProject(name) ==
    {k \in 1..Len(generateChunks) : generateChunks[k].source.projectName = JsString(name)}

\* C21: in the corpus produced by generateChunks() all chunk ids are pairwise
\* distinct, there is exactly one chunk per project, its source.projectName being the
\* project's name, and every chunk's text is non-empty; this is the corpus ragSearch
\* takes its candidates from.
C21_ChunkUniqueness ==
    /\ \A i, j \in 1..Len(generateChunks) :
          i # j => generateChunks[i].id # generateChunks[j].id
    /\ \A p \in 1..Len(projects) : Cardinality(ChunksOfProject(projects[p].name)) = 1
    /\ Cardinality({k \in 1..Len(generateChunks) : generateChunks[k].source.section = "project"})
          = Len(projects)
    /\ \A k \in 1..Len(generateChunks) :
          \E i \in 1..Len(generateChunks[k].text) : generateChunks[k].text[i].s # ""
    /\ Len(chunks) = Len(generateChunks)
    /\ \A k \in 1..Len(chunks) :
          /\ Spell[chunks[k].id] = generateChunks[k].id
          /\ chunks[k].section = generateChunks[k].source.section
    /\ \A i, j \in 1..Len(search.relevantChunks) :
          i # j => search.relevantChunks[i].id # search.relevantChunks[j].id

\* a search over the whole corpus, the chunks of the eight projects among them, has
\* returned
C21_Witness ==
    /\ Returned
    /\ Len(search.scored) = Len(generateChunks)
    /\ Cardinality({k \in 1..Len(search.scored) :
                       search.scored[k].chunk.section = "project"}) = Len(projects)

\* the fields of a project that generateChunks puts into its text and that a project
\* may lack
OptionalFields ==
    {"tagline", "status", "category", "problem", "approach", "recognition", "learningFocus",
     "context", "links"}

\* C22: for every project, the text of its chunk has a segment for an optional field
\* only when the project has that field, and no placeholder such as "undefined" for a
\* field it lacks.
C22_AsStated ==
    \A k \in 1..Len(search.relevantChunks) :
        \A p \in 1..Len(projects) :
            Spell[search.relevantChunks[k].id] = ProjectId(projects[p].name) =>
                LET text == ProjectChunk(projects[p]).text
                IN  /\ \A f \in OptionalFields :
                          (\E i \in 1..Len(text) : text[i].field = f) => f \in projects[p].has
                    /\ \A i \in 1..Len(text) :
                          text[i].kind = "val" => text[i].s # "undefined"

\* the request in slot s has been answered with success=true and cached=false
AnsweredFresh(s) == req[s].pc = "done" /\ req[s].resp.success /\ ~req[s].resp.cached

\* the cache holds, under the key of the request in slot s, the data it was answered with
HoldsAnswer(s) ==
    LET k == NormalizeCacheQuery(req[s].key)
    IN  k \in DOMAIN responseCache /\ responseCache[k].response = req[s].resp.data

\* the request in slot s was answered with the generic no-information response
AnsweredGeneric(s) == req[s].resp.fallback /\ req[s].resp.data = "no_information"

EntryKey(s) == NormalizeCacheQuery(req[s].key)

\* the key the cache files the request (query, context) under
EntryKeyOf(asked) ==
    NormalizeCacheQuery(CacheKey(NormalizeQuery(asked.query.s), asked.context))

\* C24: requests in flight at once with the same cache key can both miss and both
\* call generateObject; whatever the interleaving, every cache entry is a response
\* produced (generated, or mapped on a failure) for a request with that key, and when
\* two such requests have finished, the entry is the response of the one that
\* finished last.
C24_DuplicateHarmless ==
    /\ \A k \in DOMAIN responseCache :
          /\ k \in DOMAIN storedBy
          /\ EntryKeyOf(storedBy[k]) = k
          /\ responseCache[k].response \in Objects \cup {mapQueryToFallback(storedBy[k].query.s)}
    /\ \A s, t \in DOMAIN req :
          (/\ s # t
           /\ req[s].pc = "done" /\ req[s].generated
           /\ req[t].pc = "done" /\ req[t].generated
           /\ EntryKey(s) = EntryKey(t)
           /\ t \in req[s].finishedAfter) => HoldsAnswer(s)

\* two requests with one key, in flight at once, have both missed the cache and both
\* generated, with different results, and the later one has finished
C24_Witness ==
    \E s, t \in DOMAIN req :
        /\ s # t
        /\ now = 0
        /\ req[s].pc = "done" /\ req[s].generated
        /\ req[t].pc = "done" /\ req[t].generated
        /\ EntryKey(s) = EntryKey(t)
        /\ req[s].body # req[t].body
        /\ req[s].resp.data # req[t].resp.data
        /\ t \in req[s].finishedAfter

C26_AlwaysPanel ==
    \A i \in PageCalls :
        (handle[i].pc = "fetch") ~>
            (handle[i].pc = "returned" /\ ~page.isSearching /\ page.searchResult # None)

\* a search whose answer could not be parsed has returned, the connection error panel
\* is shown and nothing is being searched
C26_Witness ==
    \E i \in PageCalls :
        /\ handle[i].pc = "returned"
        /\ handle[i].outcome = "garbled"
        /\ page.searchResult = ConnectionErrorPanel
        /\ ~page.isSearching

\* the place of a chunk in the corpus
CorpusIndex(chunk) == CHOOSE k \in 1..Len(chunks) : chunks[k].id = chunk.id

\* the pair a comes before the pair b: by score, and by corpus order among equal scores
RanksBefore(a, b) ==
    \/ ScoreGT(a.score, b.score)
    \/ ScoreEQ(a.score, b.score) /\ CorpusIndex(a.chunk) < CorpusIndex(b.chunk)

\* C27: in every result of ragSearch with fallbackUsed=false, chunks of equal score
\* are in corpus order, and a surviving chunk left out at the cut-off comes, by score
\* and then corpus order, after every chunk kept; the list is thereby fixed by the
\* query vector and the embeddings.
C27_TiesByCorpusOrder ==
    (Returned /\ ~search.result.fallbackUsed) =>
        LET results == search.result.results
        IN  /\ \A k \in 1..(Len(results) - 1) : RanksBefore(results[k], results[k + 1])
            /\ \A c \in 1..Len(search.scored) :
                  (/\ ScoreGE(search.scored[c].score, SIMILARITY_THRESHOLD)
                   /\ search.scored[c].chunk.id \notin ResultIds(results)) =>
                      \A k \in 1..Len(results) : RanksBefore(results[k], search.scored[c])

\* four candidates have tied over the threshold, and the first three of the corpus are
\* the result
C27_Witness ==
    /\ Returned
    /\ ~search.result.fallbackUsed
    /\ Len(search.scored) = 4
    /\ \A c \in 1..4 : ScoreEQ(search.scored[c].score, search.scored[1].score)
    /\ Len(search.result.results) = TOP_K
    /\ \A k \in 1..TOP_K : search.result.results[k].chunk = search.scored[k].chunk

\* C28 as stated: a chunk embedding that was computed on demand is stored under the
\* chunk id in the in-memory lookup, and no call of getChunkEmbedding for that chunk
\* that starts after it was stored invokes the Embedding Provider again.
C28_AsStated ==
    /\ \A id \in getting.stored : id \in DOMAIN chunkEmbeddings.map
    /\ \A s \in GetSlots : getting.call[s].after => ~getting.call[s].invoked

\* the request in slot s looked the cache up less than CACHE_TTL after a pre-defined
\* response had been stored under its cacheKey
AfterCanned(s) ==
    /\ req[s].looked
    /\ req[s].canned # None
    /\ req[s].lookupAt - req[s].canned.at < CACHE_TTL

\* C29 as stated: once a failed generation was answered with a keyword-mapped
\* response for a cache key, every later allowed request with that key within
\* CACHE_TTL is answered with that response as cached=true, and generateObject is
\* not called for it.
C29_AsStated ==
    \A s \in DOMAIN req :
        AfterCanned(s) =>
            /\ req[s].pc = "done"
            /\ req[s].resp = OkResponse(req[s].canned.data, TRUE, FALSE)
            /\ ~req[s].generated

\* C29, amended: such a request is answered cached=true with what the cache holds
\* and generateObject is not called for it; what the cache holds is the keyword-mapped
\* response if no other request for the same entry was awaiting generateObject when
\* that response was stored.
C29_StickyUnlessOverlapped ==
    \A s \in DOMAIN req :
        AfterCanned(s) =>
            /\ req[s].pc = "done"
            /\ req[s].resp = OkResponse(req[s].found.response, TRUE, FALSE)
            /\ ~req[s].generated
            /\ req[s].canned.alone => req[s].resp.data = req[s].canned.data

\* a request that came later than the keyword-mapped response of a failed generation,
\* stored while nothing else was being generated, was answered with it from the cache
C29_Witness ==
    \E s \in DOMAIN req :
        /\ AfterCanned(s)
        /\ req[s].canned.alone
        /\ req[s].lookupAt > req[s].canned.at
        /\ req[s].resp = OkResponse(req[s].canned.data, TRUE, FALSE)

\* C30: in every result of ragSearch with fallbackUsed=false, the section of each
\* returned chunk is one of getSectionsForIntent(intent) for the intent returned, and
\* no chunk is returned twice.
C30_EligibleOnce ==
    (Returned /\ ~search.result.fallbackUsed) =>
        LET results == search.result.results
        IN  /\ \A k \in 1..Len(results) :
                  ArrayIncludes(getSectionsForIntent(search.result.intent),
                                results[k].chunk.section)
            /\ \A j, k \in 1..Len(results) :
                  j # k => results[j].chunk.id # results[k].chunk.id

\* a search of an intent other than general, with chunks of the corpus outside its
\* sections, has returned TOP_K chunks
C30_Witness ==
    /\ Returned
    /\ ~search.result.fallbackUsed
    /\ search.result.intent # "general"
    /\ Len(search.result.results) = TOP_K
    /\ \E k \in 1..Len(chunks) :
          ~ArrayIncludes(getSectionsForIntent(search.result.intent), chunks[k].section)

====
